---- MODULE Spec2Model ----
(***************************************************************************)
(* A model of tqsdk-go: the DIFF document store (DataManager), the         *)
(* reconnecting websocket transport (TqWebsocket / TqQuoteWebsocket) and   *)
(* the trade session that sits on top of them.                             *)
(*                                                                         *)
(* JSON values are tagged records:                                         *)
(*   [t |-> "null"], [t |-> "num", v |-> n], [t |-> "str", v |-> s],       *)
(*   [t |-> "list", items |-> <<...>>], [t |-> "map", kv |-> f]            *)
(* where f is a function from a finite set of keys to values.  As in the   *)
(* code, the version tag of a mapping is its own entry "_epoch".           *)
(***************************************************************************)
EXTENDS Integers, Sequences, FiniteSets, TLC

VARIABLES
    data,       \* DataManager.data: the root mapping (a key -> value function)
    epoch,      \* DataManager.epoch
    diffs,      \* DataManager.diffs: the last recorded diff batch
    prevData,   \* history: data before the last MergeData call
    prevEpoch,  \* history: epoch before the last MergeData call
    lastArr,    \* history: the normalised source of the last MergeData call
    lastInc,    \* history: epochIncrease of the last MergeData call
    lastOk,     \* history: the last call's source could be normalised
    merges      \* number of MergeData calls made so far

storeVars == <<data, epoch, diffs>>

histVars == <<prevData, prevEpoch, lastArr, lastInc, lastOk, merges>>

VARIABLES
    mu,          \* DataManager.mu: [w |-> the caller holding Lock or "none", r |-> readers]
    nCallbacks,  \* len(DataManager.onDataCallbacks); callbacks are 1..nCallbacks
    call,        \* per caller of MergeData: its position and locals
    gos,         \* the callback goroutines started by `go callback()`
    watchers,    \* DataManager.watchers: path -> the watcher's channel buffer
    wmu,         \* DataManager.watchersMu: number of readers
    calls,       \* number of MergeData calls made so far
    invoked,     \* history: per callback, the goroutines started for it
    dueAll,      \* history: per callback, the epoch-increasing merges since it registered
    dueMerged    \* history: those of them that merged a non-empty item

dmVars == <<mu, nCallbacks, call, gos, watchers, wmu, calls, invoked, dueAll, dueMerged>>

VARIABLES
    status,            \* TqWebsocket.status
    conn,              \* TqWebsocket.conn: 0 is nil, n the n-th dialled connection
    connAlive,         \* the socket of conn is open at both ends
    ctxDone,           \* TqWebsocket.cancel() has been called
    queue,             \* TqWebsocket.queue
    reconnect,         \* TqWebsocket.reconnect
    reconnectTimes,    \* TqWebsocket.reconnectTimes
    reconnectUrlIndex, \* TqWebsocket.reconnectUrlIndex
    reconnectTask,     \* TqWebsocket.reconnectTask: "nil", "pending", "fired" or "stopped"
    dead,              \* onDeath has been fired
    subscribeQuote,    \* TqQuoteWebsocket.subscribeQuote
    charts,            \* TqQuoteWebsocket.charts
    chartsMu,          \* TqQuoteWebsocket.chartsMu: number of readers
    wire,              \* the frames written to the current connection
    dials,             \* connections dialled so far
    frames,            \* inbound frames read so far
    sends,             \* user calls of Send so far
    loops,             \* the receiveLoop goroutines
    th,                \* the goroutine calling Init(false) and the timer's goroutine
    firstInboundAt,    \* history: Len(wire) when the connection's first frame was processed
    connBy,            \* history: who opened the current connection
    hadSub,            \* history: subscribeQuote when onReconnect ran for this connection
    hadCharts,         \* history: the active charts when onReconnect ran for it
    initFailed,        \* history: an Init returned a dial error
    closeReturned,     \* history: Close() has returned
    lateReconnect      \* history: onReconnect fired after Close() returned

wsVars == <<status, conn, connAlive, ctxDone, queue, reconnect, reconnectTimes,
            reconnectUrlIndex, reconnectTask, dead, subscribeQuote, charts, chartsMu,
            wire, dials, frames, sends, loops, th, firstInboundAt, connBy, hadSub,
            hadCharts, initFailed, closeReturned, lateReconnect>>

VARIABLES
    loggedIn,      \* TradeSession.loggedIn
    inserted,      \* orders placed with InsertOrder so far
    serverMerges,  \* rtn_data frames merged so far
    pu,            \* the goroutines running processUpdate
    emitted,       \* the orders handed to emitOrder, with the merge whose callback did
    confirmed,     \* history: the orders some rtn_data frame has contained
    crashed        \* the runtime stopped the process on a concurrent map access

tsVars == <<loggedIn, inserted, serverMerges, pu, emitted, confirmed, crashed>>

VARIABLES
    tcConnects,  \* calls of TradeSession.Connect so far, the automatic one included
    tcLogins,    \* req_login requests the calls of Connect have handed to Send
    tcRunning,   \* TradeSession.running
    tcFailed     \* NewTradeSession returned the error of its Connect: no session

tcVars == <<tcConnects, tcLogins, tcRunning, tcFailed>>

VARIABLES
    srKind,       \* the subscription: "single", "multi" or "tick"
    srWatching,   \* watch() has registered processUpdate with OnData
    handlers,     \* the callbacks the user has registered on the subscription
    lastIDs,      \* SeriesSubscription.lastIDs
    lastLeftID,   \* SeriesSubscription.lastLeftID
    lastRightID,  \* SeriesSubscription.lastRightID
    chartReady,   \* SeriesSubscription.chartReady
    sp,           \* the goroutines running SeriesSubscription.processUpdate
    updates,      \* history: the UpdateInfo of each processed update, in order
    srFrames,     \* rtn_data frames merged so far
    srCrashed     \* the runtime stopped the process on a concurrent map access

srVars == <<srKind, srWatching, handlers, lastIDs, lastLeftID, lastRightID,
            chartReady, sp, updates, srFrames, srCrashed>>

VARIABLES
    vwKind,     \* the subscription whose view is built: "single" or "multi"
    vwW,        \* SeriesOptions.ViewWidth of the subscription
    vwReq,      \* the view_width of the set_chart request sendSetChart sent
    vwCall,     \* the call building the view: its position, locals and result
    vwOwn,      \* history: the subscription's chart when the call read the charts
    vwFrames,   \* rtn_data frames merged so far
    vwCrashed   \* the runtime stopped the process on a concurrent map access

vwVars == <<vwKind, vwW, vwReq, vwCall, vwOwn, vwFrames, vwCrashed>>

VARIABLES
    rlCur,  \* per receiveLoop goroutine, the inbound frame it is processing
    rlLog   \* history: per inbound frame, what receiveLoop has done with it

rlVars == <<rlCur, rlLog>>

VARIABLES
    flSend,    \* the user's call of TqWebsocket.Send in progress, if any
    flLog,     \* history: the frames handed to Send, with IsReady at the call
    flWritten  \* history: the frames handed to conn.Write, in order

flVars == <<flSend, flLog, flWritten>>

VARIABLES
    wtReg,    \* DataManager.watchers as the watcher claims need it: path -> channel
    wtChan,   \* the channels made by Watch: buffer, closed
    wtCtx,    \* the context the user passes to Watch: cancelled, after which merge
    wtCall,   \* per caller of MergeData: its position in notifyWatchers
    wtR,      \* DataManager.watchersMu: number of readers
    wtUn,     \* the call of UnWatch in progress, if any
    wtGot,    \* history: the values the consumers have taken from the channels
    wtLog,    \* history: what notifyWatchers did for merge n, and after which merge
    wtSrc,    \* history: the payloads merged, in order
    wtPanic   \* a send on a closed channel, or a second close, has happened

wtVars == <<wtReg, wtChan, wtCtx, wtCall, wtR, wtUn, wtGot, wtLog, wtSrc, wtPanic>>

VARIABLES
    acCh,       \* TradeSession.accountCh: the accounts buffered for the subscriber
    acPending,  \* the processUpdate goroutines started and not yet run
    acGot,      \* history: the accounts the subscriber has taken
    acDropped   \* history: the accounts emitAccount could not put in the channel

acVars == <<acCh, acPending, acGot, acDropped>>

VARIABLES
    chLast   \* history: per chart_id, the latest set_chart handed to Send

chVars == <<chLast>>

VARIABLES
    quoteSubscription  \* Client.quoteSubscription: nil, or its symbols map

qsVars == <<quoteSubscription>>

VARIABLES
    emHandlers,  \* EventEmitter.handlers[event]: the handlers, in order of registration
    emGos,  \* the goroutines Emit has started and that have not run yet
    emInvoked,  \* history: per user handler, the emissions it was invoked for
    emEmits  \* history: the number of Emit calls

emVars == <<emHandlers, emGos, emInvoked, emEmits>>

VARIABLES
    vtOrders,  \* VirtualTrader.orders, in order of insertion: VolumeOrign, VolumeLeft, Status
    vtRunning,  \* VirtualTrader.running
    vtClosed,  \* the delivery channels of the VirtualTrader have been closed
    vtGos,  \* the goroutines started by the VirtualTrader that have not run yet
    vtCalls,  \* history: the number of calls made by the user
    vtPanic  \* a send on a closed channel has happened

vtVars == <<vtOrders, vtRunning, vtClosed, vtGos, vtCalls, vtPanic>>

VARIABLES
    qcGos,  \* the callback goroutines MergeData has started and that have not run yet
    qcLog,  \* history: for the callback of merge n, run after merge at, the symbols it saw changing
    qcSrc  \* history: the payloads merged, in order

qcVars == <<qcGos, qcLog, qcSrc>>

VARIABLES
    srRunning,  \* SeriesSubscription.running
    srClosedAt  \* history: the frames merged when Close returned, -1 before

scVars == <<srRunning, srClosedAt>>

moreVars == <<qsVars, emVars, vtVars, qcVars, scVars>>

lateVars == <<flVars, wtVars, acVars, chVars, moreVars>>

extVars == <<tcVars, srVars, vwVars, rlVars, lateVars>>

vars == <<storeVars, histVars, dmVars, wsVars, tsVars, extVars>>

----------------------------------------------------------------------------
(* Bounds *)

\* MergeData calls explored by the store specification
MaxMerges == 2

\* MergeData calls explored by the stepwise specification
MaxCalls == 2

\* callbacks registered with OnData
MaxCallbacks == 1

\* capacity of a watcher's channel: make(chan interface{}, 10)
WatchBuffer == 10

\* DefaultWebSocketConfig: ReconnectMaxTimes
ReconnectMaxTimes == 2

\* NewTqQuoteWebsocket(url string, ...): the url list holds one url
UrlCount == 1

\* user calls of Send explored
MaxSends == 2

\* rtn_data frames of the trade channel explored
MaxServerMerges == 2

\* InsertOrder calls explored
MaxOrders == 1

\* inbound frames explored
MaxFrames == 2

\* calls of TradeSession.Connect explored
MaxConnects == 3

\* rtn_data frames of the quote channel explored by the series specification
MaxSrFrames == 3

\* processUpdate goroutines of a subscription in flight at a time
MaxSp == 2

\* rtn_data frames of the quote channel explored by the view specification
MaxVwFrames == 3

\* bar ids of the main instrument the server sends: 1..MaxBarId
MaxBarId == 2

\* SeriesOptions.ViewWidth ranges over 1..MaxW
MaxW == 2

\* the limit sendSetChart puts on view_width, 10000 in the source, scaled
\* down so that a subscription's view width can exceed it
ViewWidthLimit == 1

\* NewDataManager: DataManagerConfig.DefaultViewWidth
DefaultViewWidth == 102400

\* merges made while watchers are registered
MaxWtMerges == 2

\* channels made by Watch
MaxWatches == 1

\* merges made to fill a watcher's channel
MaxFill == 11

\* account updates the server sends
MaxAcMerges == 12

\* processUpdate goroutines waiting to run when a frame arrives
MaxAcPending == 1

\* orders a VirtualTrader is given
MaxVtOrders == 2

\* calls of the VirtualTrader's methods explored
MaxVtCalls == 4

\* rtn_data frames explored with the quote subscription's callback
MaxQcMerges == 3

\* calls of EventEmitter.Emit explored
MaxEmits == 3

\* rtn_data frames explored around SeriesSubscription.Close
MaxScFrames == 2

\* the capacity of TradeSession.accountCh
AccountBuffer == 10

----------------------------------------------------------------------------
(* JSON values *)

Null == [t |-> "null"]

Num(n) == [t |-> "num", v |-> n]

Str(s) == [t |-> "str", v |-> s]

List(xs) == [t |-> "list", items |-> xs]

Map(f) == [t |-> "map", kv |-> f]

Bool(b) == [t |-> "bool", v |-> b]

EmptyKV == [k \in {} |-> Null]

EmptyMap == Map(EmptyKV)

IsMap(x) == x.t = "map"

----------------------------------------------------------------------------
(* DataManager: epoch tags *)

\* mutant of setEpoch: the stamp is forgotten
setEpochNoStamp(obj, e) == obj

setEpoch(obj, e) ==
    IF IsMap(obj)
    THEN Map([k \in DOMAIN obj.kv \cup {"_epoch"} |->
                 IF k = "_epoch" THEN Num(e) ELSE obj.kv[k]])
    ELSE obj

\* getEpoch returns (epoch, ok); ok fails unless obj is a mapping whose
\* "_epoch" entry is a number
getEpochOk(obj) ==
    /\ IsMap(obj)
    /\ "_epoch" \in DOMAIN obj.kv
    /\ obj.kv["_epoch"].t = "num"

getEpoch(obj) == IF getEpochOk(obj) THEN obj.kv["_epoch"].v ELSE 0

----------------------------------------------------------------------------
(* DataManager: the DIFF merge *)

RECURSIVE mergeObject(_, _, _, _)
RECURSIVE mergeQuotes(_, _, _, _)

\* the value mergeObject leaves under `property` for a non-null source value
mergeProperty(target, property, value, e, deleteNullObj) ==
    CASE value.t \in {"num", "str", "bool"} ->
            IF value.t = "str" /\ value.v \in {"NaN", "-"} THEN Null ELSE value
      [] value.t = "list" -> setEpoch(value, e)
      [] value.t = "map" ->
            LET ensured ==
                    IF property \in DOMAIN target
                    THEN target
                    ELSE [k \in DOMAIN target \cup {property} |->
                             IF k = property THEN EmptyMap ELSE target[k]]
            IN  IF property = "quotes"
                THEN mergeQuotes(ensured, value.kv, e, deleteNullObj)["quotes"]
                ELSE IF IsMap(ensured[property])
                     THEN Map(mergeObject(ensured[property].kv, value.kv, e, deleteNullObj))
                     ELSE ensured[property]

\* mergeObject(target, source, epoch, deleteNullObj): target after the merge.
\* target and source are key -> value functions.
mergeObject(target, source, e, deleteNullObj) ==
    LET props   == DOMAIN source
        removed == {p \in props : source[p].t = "null" /\ deleteNullObj}
        written == {p \in props : source[p].t # "null"}
        merged  == [k \in (DOMAIN target \ removed) \cup written |->
                       IF k \in written
                       THEN mergeProperty(target, k, source[k], e, deleteNullObj)
                       ELSE target[k]]
    IN  setEpoch(Map(merged), e).kv

\* mergeQuotes(target, quotes, epoch, deleteNullObj): target after the merge
\* of the quotes object; the quotes mapping itself is not stamped.
mergeQuotes(target, quotes, e, deleteNullObj) ==
    LET quotesMap == IF "quotes" \in DOMAIN target /\ IsMap(target["quotes"])
                     THEN target["quotes"].kv
                     ELSE EmptyKV
        syms    == DOMAIN quotes
        removed == {s \in syms : quotes[s].t = "null" /\ deleteNullObj}
        written == {s \in syms : IsMap(quotes[s])}
        cur(s)  == IF s \in DOMAIN quotesMap THEN quotesMap[s] ELSE EmptyMap
        merged  == [s \in (DOMAIN quotesMap \ removed) \cup written |->
                       IF s \in written
                       THEN IF IsMap(cur(s))
                            THEN Map(mergeObject(cur(s).kv, quotes[s].kv, e, deleteNullObj))
                            ELSE cur(s)
                       ELSE quotesMap[s]]
    IN  [k \in DOMAIN target \cup {"quotes"} |->
            IF k = "quotes" THEN Map(merged) ELSE target[k]]

\* the normalisation of MergeData's source to a list of mappings:
\* a mapping, a list filtered to its mappings, or a JSON round trip
\* (null decodes to a nil mapping; any other scalar fails to decode)
Normalisable(source) == source.t \in {"map", "list", "null"}

RECURSIVE FilterMaps(_)
FilterMaps(xs) ==
    IF xs = << >> THEN << >>
    ELSE IF IsMap(Head(xs)) THEN <<Head(xs).kv>> \o FilterMaps(Tail(xs))
         ELSE FilterMaps(Tail(xs))

sourceArr(source) ==
    CASE source.t = "map"  -> <<source.kv>>
      [] source.t = "list" -> FilterMaps(source.items)
      [] source.t = "null" -> <<EmptyKV>>

\* the loop over the items: empty items are skipped
RECURSIVE mergeItems(_, _, _, _)
mergeItems(d, arr, e, deleteNullObj) ==
    IF arr = << >> THEN d
    ELSE mergeItems(IF DOMAIN Head(arr) = {} THEN d
                    ELSE mergeObject(d, Head(arr), e, deleteNullObj),
                    Tail(arr), e, deleteNullObj)

----------------------------------------------------------------------------
(* DataManager: reads *)

RECURSIVE isChangingLoop(_, _, _, _)
isChangingLoop(d, ep, pathArray, i) ==
    IF i > Len(pathArray) THEN FALSE
    ELSE IF pathArray[i] \notin DOMAIN d THEN FALSE
    ELSE LET val == d[pathArray[i]]
         IN  IF getEpochOk(val) /\ getEpoch(val) = ep THEN TRUE
             ELSE IF i < Len(pathArray)
                  THEN IF IsMap(val)
                       THEN isChangingLoop(val.kv, ep, pathArray, i + 1)
                       ELSE FALSE
                  ELSE FALSE

\* mutant of IsChanging: only the value at the end of the path is inspected
RECURSIVE leafOnlyLoop(_, _, _, _)
leafOnlyLoop(d, ep, pathArray, i) ==
    IF i > Len(pathArray) THEN FALSE
    ELSE IF pathArray[i] \notin DOMAIN d THEN FALSE
    ELSE LET val == d[pathArray[i]]
         IN  IF i = Len(pathArray)
             THEN getEpochOk(val) /\ getEpoch(val) = ep
             ELSE IF IsMap(val) THEN leafOnlyLoop(val.kv, ep, pathArray, i + 1)
                  ELSE FALSE

IsChangingLeafOnly(pathArray) == leafOnlyLoop(data, epoch, pathArray, 1)

IsChanging(pathArray) == isChangingLoop(data, epoch, pathArray, 1)

\* GetByPath over a root d: Null stands for Go's nil result
RECURSIVE getByPathLoop(_, _, _)
getByPathLoop(d, pathArray, i) ==
    IF i > Len(pathArray) THEN Map(d)
    ELSE IF pathArray[i] \notin DOMAIN d THEN Null
    ELSE LET val == d[pathArray[i]]
         IN  IF i = Len(pathArray) THEN val
             ELSE IF IsMap(val) THEN getByPathLoop(val.kv, pathArray, i + 1)
                  ELSE Null

GetByPath(pathArray) == getByPathLoop(data, pathArray, 1)

----------------------------------------------------------------------------------------------------------------------------------------
(* The store on its own: whole MergeData calls on bounded sources *)

Tops == {"quotes", "klines"}

Syms == {"au", "quotes"}

Fields == {"p"}

Doc1(k, v) == Map([x \in {k} |-> v])

Doc2(k1, k2, v) == Doc1(k1, Doc1(k2, v))

Bar(n) == Doc1("p", Num(n))

SymValues == {Bar(1), EmptyMap, Null, Num(1)}

\* documents that write one instrument, one top-level key, or nothing
Docs ==
    {Doc2(t, s, v) : t \in Tops, s \in Syms, v \in SymValues}
      \cup {Doc1(t, v) : t \in Tops, v \in {Null, Num(1)}}
      \cup { EmptyMap,
             Doc1("klines", Str("NaN")),
             Doc1("klines", List(<<Num(1)>>)),
             Map([t \in Tops |-> Doc1("au", Bar(2))]) }

\* rtn_data payloads: lists of diffs, merged in order
Batches ==
    { List(<< >>),
      List(<<Doc1("klines", Null), Doc2("klines", "au", Bar(2))>>),
      List(<<Doc2("klines", "au", Bar(2)), Doc1("klines", Num(1))>>),
      List(<<Num(1), Doc2("quotes", "au", Bar(2))>>) }

StoreSources == Docs \cup Batches \cup {Null, Num(1), Str("x")}

Skeleton == [k \in Tops |-> EmptyMap]

\* the goroutines that call MergeData: a channel's receive loop, with
\* (true, true), and a user goroutine seeding an order, with (false, false)
Callers == {"recv", "user"}

FromServer(c) == c = "recv"

WatchPaths == {<<"klines", "au">>}

IdleCall == [pc |-> "idle", n |-> 0, rest |-> << >>, inc |-> FALSE, del |-> FALSE,
             e0 |-> 0, ok |-> FALSE, nonEmpty |-> FALSE, notify |-> FALSE,
             todo |-> {}, cur |-> << >>, saw |-> {}]

\* the stepwise machinery at rest (the state after NewDataManager)
DMIdle ==
    /\ mu = [w |-> "none", r |-> 0]
    /\ nCallbacks = 0
    /\ call = [c \in Callers |-> IdleCall]
    /\ gos = {}
    /\ watchers = [p \in {} |-> << >>]
    /\ wmu = 0
    /\ calls = 0
    /\ invoked = [k \in 1..MaxCallbacks |-> 0]
    /\ dueAll = [k \in 1..MaxCallbacks |-> 0]
    /\ dueMerged = [k \in 1..MaxCallbacks |-> 0]

\* a request's view_width keeps its Go type: int or float64
IntVW(n) == [t |-> "int", n |-> n]

FloatVW(n) == [t |-> "float64", n |-> n]

NoVW == [t |-> "none", n |-> 0]

\* a nil request
NoSub == [aid |-> "nil", key |-> "", vw |-> NoVW]

\* {"aid": "subscribe_quote", "ins_list": ins}
Sub(ins) == [aid |-> "subscribe_quote", key |-> ins, vw |-> NoVW]

\* {"aid": "set_chart", "chart_id": id, "view_width": vw}
Chart(id, vw) == [aid |-> "set_chart", key |-> id, vw |-> vw]

Peek == [aid |-> "peek_message", key |-> "", vw |-> NoVW]

\* a frame on the queue or on the wire, with the goroutine that sent it
Tagged(m, by) == [aid |-> m.aid, key |-> m.key, vw |-> m.vw, by |-> by]

IdleThread == [pc |-> "none", c |-> 0, todo |-> {}, sub |-> NoSub, active |-> {}]

\* the state after NewTqQuoteWebsocket
WsIdle ==
    /\ status = "Closed"
    /\ conn = 0
    /\ connAlive = FALSE
    /\ ctxDone = FALSE
    /\ queue = << >>
    /\ reconnect = TRUE
    /\ reconnectTimes = 0
    /\ reconnectUrlIndex = 0
    /\ reconnectTask = "nil"
    /\ dead = FALSE
    /\ subscribeQuote = NoSub
    /\ charts = [id \in {} |-> NoSub]
    /\ chartsMu = 0
    /\ wire = << >>
    /\ dials = 0
    /\ frames = 0
    /\ sends = 0
    /\ loops = {}
    /\ th = [t \in {"user", "timer"} |->
                IF t = "user" THEN [IdleThread EXCEPT !.pc = "init"] ELSE IdleThread]
    /\ firstInboundAt = -1
    /\ connBy = "none"
    /\ hadSub = NoSub
    /\ hadCharts = {}
    /\ initFailed = FALSE
    /\ closeReturned = FALSE
    /\ lateReconnect = FALSE

\* the state after NewTradeSession, before Connect
TsIdle ==
    /\ loggedIn = FALSE
    /\ inserted = 0
    /\ serverMerges = 0
    /\ pu = {}
    /\ emitted = {}
    /\ confirmed = {}
    /\ crashed = FALSE

\* the state after NewTradeSession has built the session, before its Connect
TcIdle ==
    /\ tcConnects = 0
    /\ tcLogins = 0
    /\ tcRunning = FALSE
    /\ tcFailed = FALSE

\* the instruments: two subscribed ones and one of another subscription
SymA == "au"

SymB == "ag"

SymC == "cu"

Kinds == {"single", "multi", "tick"}

\* SeriesOptions.Symbols
SymbolsOf(kind) == IF kind = "multi" THEN <<SymA, SymB>> ELSE <<SymA>>

\* SeriesOptions.Duration in nanoseconds: 0 is a tick subscription
DurationOf(kind) == IF kind = "tick" THEN 0 ELSE 60

\* the state after NewSeriesSubscription has built a subscription of this kind
SrIdle(kind) ==
    /\ srKind = kind
    /\ srWatching = FALSE
    /\ handlers = {}
    /\ lastIDs = [s \in {SymbolsOf(srKind)[i] : i \in 1..Len(SymbolsOf(srKind))} |-> -1]
    /\ lastLeftID = -1
    /\ lastRightID = -1
    /\ chartReady = FALSE
    /\ sp = {}
    /\ updates = << >>
    /\ srFrames = 0
    /\ srCrashed = FALSE

\* a nil *ChartInfo
NoChart == [ok |-> FALSE, LeftID |-> 0, RightID |-> 0, Ready |-> FALSE, MoreData |-> FALSE]

\* sendSetChart: the view_width of the set_chart request
sendSetChart(viewWidth) == IF viewWidth > ViewWidthLimit THEN ViewWidthLimit ELSE viewWidth

\* a call of getSingleKlineData or getMultiKlineData about to start; seen is
\* history: per slot, the bar ids the second instrument had when it was built
VwStart ==
    [pc |-> "start", err |-> FALSE, all |-> << >>, right |-> -1, ids |-> << >>,
     bind |-> [m \in {} |-> 0], todo |-> << >>, out |-> << >>, seen |-> << >>]

\* the state after NewSeriesSubscription has built a K-line subscription of
\* this kind and view width
VwIdle(kind, w) ==
    /\ vwKind = kind
    /\ vwW = w
    /\ vwReq = sendSetChart(w)
    /\ vwCall = VwStart
    /\ vwOwn = NoChart
    /\ vwFrames = 0
    /\ vwCrashed = FALSE

\* no receiveLoop has read a frame yet
RlIdle ==
    /\ rlCur = [id \in {} |-> 0]
    /\ rlLog = << >>

\* no call of Send is in progress
NoSend == [pc |-> "none", f |-> Tagged(NoSub, "user")]

FlIdle ==
    /\ flSend = NoSend
    /\ flLog = << >>
    /\ flWritten = << >>

\* the watcher ranged over was registered, on the same path, when the merge ran
Before(wc, path) ==
    /\ path \in DOMAIN wc.reg
    /\ wc.reg[path] = wc.ranged[path]

WtIdleCall == [pc |-> "idle", n |-> 0, at |-> 0, todo |-> {}, cur |-> << >>,
               reg |-> [p \in {} |-> 0], ranged |-> [p \in {} |-> 0]]

NoUnWatch == [pc |-> "none", ch |-> 0]

WtIdle ==
    /\ wtReg = [p \in {} |-> 0]
    /\ wtChan = << >>
    /\ wtCtx = [done |-> FALSE, at |-> 0]
    /\ wtCall = [c \in Callers |-> WtIdleCall]
    /\ wtR = 0
    /\ wtUn = NoUnWatch
    /\ wtGot = << >>
    /\ wtLog = {}
    /\ wtSrc = << >>
    /\ wtPanic = FALSE

AcIdle ==
    /\ acCh = << >>
    /\ acPending = 0
    /\ acGot = << >>
    /\ acDropped = 0

ChIdle ==
    /\ chLast = [id \in {} |-> NoSub]

NoQuoteSubscription == [nil |-> TRUE, symbols |-> {}]

QsIdle ==
    /\ quoteSubscription = NoQuoteSubscription

\* the user's handlers: one registered with Once, one with On
OnceHandler == "h1"

OnHandler == "h2"

EmIdle ==
    /\ emHandlers = << >>
    /\ emGos = {}
    /\ emInvoked = [h \in {OnceHandler, OnHandler} |-> {}]
    /\ emEmits = 0

\* the state after NewVirtualTrader
VtIdle ==
    /\ vtOrders = << >>
    /\ vtRunning = TRUE
    /\ vtClosed = FALSE
    /\ vtGos = {}
    /\ vtCalls = 0
    /\ vtPanic = FALSE

QcIdle ==
    /\ qcGos = {}
    /\ qcLog = {}
    /\ qcSrc = << >>

\* the state after NewSeriesSubscription: running, and Close not called
ScIdle ==
    /\ srRunning = TRUE
    /\ srClosedAt = -1

MoreIdle ==
    /\ QsIdle
    /\ EmIdle
    /\ VtIdle
    /\ QcIdle
    /\ ScIdle

LateIdle ==
    /\ FlIdle
    /\ WtIdle
    /\ AcIdle
    /\ ChIdle
    /\ MoreIdle

ExtIdle ==
    /\ TcIdle
    /\ SrIdle("single")
    /\ VwIdle("single", 1)
    /\ RlIdle
    /\ LateIdle

StoreInit ==
    /\ data \in {EmptyKV, Skeleton}
    /\ epoch = 0
    /\ diffs = << >>
    /\ prevData = data
    /\ prevEpoch = 0
    /\ lastArr = << >>
    /\ lastInc = FALSE
    /\ lastOk = FALSE
    /\ merges = 0
    /\ DMIdle
    /\ WsIdle
    /\ TsIdle
    /\ ExtIdle

\* MergeData(source, epochIncrease, deleteNullObj), the whole call
MergeData(source, epochIncrease, deleteNullObj) ==
    /\ prevData' = data
    /\ prevEpoch' = epoch
    /\ lastInc' = epochIncrease
    /\ lastOk' = Normalisable(source)
    /\ IF ~Normalisable(source)
       THEN /\ lastArr' = << >>
            /\ UNCHANGED <<data, epoch, diffs>>
       ELSE LET arr == sourceArr(source)
                e   == IF epochIncrease THEN epoch + 1 ELSE epoch
            IN  /\ lastArr' = arr
                /\ epoch' = e
                /\ diffs' = IF epochIncrease THEN arr ELSE diffs
                /\ data' = mergeItems(data, arr, e, deleteNullObj)

StoreMerge ==
    \E source \in StoreSources, inc \in BOOLEAN, del \in BOOLEAN :
        /\ merges < MaxMerges
        /\ merges' = merges + 1
        /\ MergeData(source, inc, del)
        /\ UNCHANGED <<extVars, dmVars, wsVars, tsVars>>

StoreNext == StoreMerge

SpecStore == StoreInit /\ [][StoreNext]_vars

----------------------------------------------------------------------------
(* MergeData step by step: the lock, the callbacks, the watchers *)

\* sync.RWMutex: Lock waits for the writer and the readers, RLock for the writer
CanLock == mu.w = "none" /\ mu.r = 0

\* mutant of CanRLock: a read that takes no lock
CanRLockAlways == TRUE

CanRLock == mu.w = "none"

\* mutant of nextEpoch: the increment is lost
nextEpochSame(ep, epochIncrease) == ep

\* if epochIncrease { dm.epoch++ }
nextEpoch(ep, epochIncrease) == IF epochIncrease THEN ep + 1 ELSE ep

\* mutant of shouldFire: the callbacks fire on every epoch-increasing call
shouldFireAlways(d, ep, epochIncrease) == epochIncrease

\* if epochIncrease { if dataEpoch, ok := dm.getEpoch(dm.data); ok && dataEpoch == dm.epoch
shouldFire(d, ep, epochIncrease) ==
    epochIncrease /\ getEpochOk(Map(d)) /\ getEpoch(Map(d)) = ep

DMSources ==
    { Doc2("klines", "au", Bar(1)),
      EmptyMap,
      Num(1),
      List(<<Doc2("klines", "au", Bar(2)), Doc2("quotes", "au", Bar(1))>>) }

DMInit ==
    /\ data = Skeleton
    /\ epoch = 0
    /\ diffs = << >>
    /\ prevData = data
    /\ prevEpoch = 0
    /\ lastArr = << >>
    /\ lastInc = FALSE
    /\ lastOk = FALSE
    /\ merges = 0
    /\ DMIdle
    /\ WsIdle
    /\ TsIdle
    /\ ExtIdle

\* OnData(callback): append under the write lock
OnData ==
    /\ CanLock
    /\ nCallbacks < MaxCallbacks
    /\ nCallbacks' = nCallbacks + 1
    /\ UNCHANGED <<extVars, wsVars, tsVars, storeVars, histVars, mu, call, gos, watchers, wmu, calls,
                   invoked, dueAll, dueMerged>>

\* Watch(ctx, path): register a watcher with an empty channel
Watch(path) ==
    /\ wmu = 0
    /\ path \notin DOMAIN watchers
    /\ watchers' = [p \in DOMAIN watchers \cup {path} |->
                       IF p = path THEN << >> ELSE watchers[p]]
    /\ UNCHANGED <<extVars, wsVars, tsVars, storeVars, histVars, mu, nCallbacks, call, gos, wmu, calls,
                   invoked, dueAll, dueMerged>>

\* a caller enters MergeData(source, epochIncrease, deleteNullObj)
DMCall(c, source, epochIncrease, deleteNullObj) ==
    /\ call[c].pc = "idle"
    /\ calls < MaxCalls
    /\ calls' = calls + 1
    /\ call' = [call EXCEPT ![c] =
                   [IdleCall EXCEPT !.pc = "lock",
                                    !.n = calls + 1,
                                    !.ok = Normalisable(source),
                                    !.rest = IF Normalisable(source)
                                             THEN sourceArr(source) ELSE << >>,
                                    !.inc = epochIncrease,
                                    !.del = deleteNullObj]]
    /\ UNCHANGED <<extVars, wsVars, tsVars, storeVars, histVars, mu, nCallbacks, gos, watchers, wmu,
                   invoked, dueAll, dueMerged>>

\* dm.mu.Lock(); normalise the source; if epochIncrease: epoch++, record diffs.
\* A source that cannot be normalised returns at once (the deferred Unlock runs).
DMLock(c) ==
    /\ call[c].pc = "lock"
    /\ CanLock
    /\ mu' = [mu EXCEPT !.w = c]
    /\ IF call[c].ok
       THEN /\ epoch' = nextEpoch(epoch, call[c].inc)
            /\ diffs' = IF call[c].inc THEN call[c].rest ELSE diffs
            /\ call' = [call EXCEPT ![c].pc = "merge",
                                    ![c].e0 = epoch,
                                    ![c].notify = call[c].inc,
                                    ![c].nonEmpty =
                                        \E i \in 1..Len(call[c].rest) :
                                            DOMAIN call[c].rest[i] # {}]
       ELSE /\ call' = [call EXCEPT ![c].pc = "unlock", ![c].e0 = epoch]
            /\ UNCHANGED <<extVars, wsVars, tsVars, epoch, diffs>>
    /\ dueAll' = [k \in 1..MaxCallbacks |->
                     IF k <= nCallbacks /\ call[c].inc /\ call[c].ok
                     THEN dueAll[k] + 1 ELSE dueAll[k]]
    /\ UNCHANGED <<extVars, wsVars, tsVars, data, histVars, nCallbacks, gos, watchers, wmu, calls,
                   invoked, dueMerged>>

\* one turn of: for _, item := range sourceArr
DMMergeItem(c) ==
    /\ call[c].pc = "merge"
    /\ call[c].rest # << >>
    /\ data' = mergeItems(data, <<Head(call[c].rest)>>, epoch, call[c].del)
    /\ call' = [call EXCEPT ![c].rest = Tail(call[c].rest)]
    /\ UNCHANGED <<extVars, wsVars, tsVars, epoch, diffs, histVars, mu, nCallbacks, gos, watchers, wmu,
                   calls, invoked, dueAll, dueMerged>>

\* after the loop, still under the lock: go callback() for every callback
DMFire(c) ==
    /\ call[c].pc = "merge"
    /\ call[c].rest = << >>
    /\ LET fire == shouldFire(data, epoch, call[c].inc)
       IN  /\ gos' = IF fire
                     THEN gos \cup {[cb |-> k, by |-> c, n |-> call[c].n, E |-> epoch,
                                     pc |-> "spawned"] : k \in 1..nCallbacks}
                     ELSE gos
           /\ invoked' = [k \in 1..MaxCallbacks |->
                             IF fire /\ k <= nCallbacks
                             THEN invoked[k] + 1 ELSE invoked[k]]
    /\ dueMerged' = [k \in 1..MaxCallbacks |->
                        IF k <= nCallbacks /\ call[c].inc /\ call[c].nonEmpty
                        THEN dueMerged[k] + 1 ELSE dueMerged[k]]
    /\ call' = [call EXCEPT ![c].pc = "unlock"]
    /\ UNCHANGED <<extVars, wsVars, tsVars, storeVars, histVars, mu, nCallbacks, watchers, wmu, calls, dueAll>>

\* the deferred dm.mu.Unlock()
DMUnlock(c) ==
    /\ call[c].pc = "unlock"
    /\ mu' = [mu EXCEPT !.w = "none"]
    /\ call' = [call EXCEPT ![c] =
                   IF call[c].notify
                   THEN [call[c] EXCEPT !.pc = "notify"]
                   ELSE IdleCall]
    /\ UNCHANGED <<extVars, wsVars, tsVars, storeVars, histVars, nCallbacks, gos, watchers, wmu, calls,
                   invoked, dueAll, dueMerged>>

\* notifyWatchers: dm.watchersMu.RLock(), then range over the watchers
DMNotifyBegin(c) ==
    /\ call[c].pc = "notify"
    /\ wmu' = wmu + 1
    /\ call' = [call EXCEPT ![c].pc = "notifying", ![c].todo = DOMAIN watchers]
    /\ UNCHANGED <<extVars, wsVars, tsVars, storeVars, histVars, mu, nCallbacks, gos, watchers, calls,
                   invoked, dueAll, dueMerged>>

\* what a read of the store finds: the holder of the write lock and the epoch
Seen == [w |-> mu.w, epoch |-> epoch]

\* if dm.IsChanging(watcher.path)
DMNotifyCheck(c, path) ==
    /\ call[c].pc = "notifying"
    /\ path \in call[c].todo
    /\ CanRLock
    /\ call' = [call EXCEPT
                   ![c].saw = call[c].saw \cup {Seen},
                   ![c].pc = IF IsChanging(path) THEN "notifyget" ELSE "notifying",
                   ![c].cur = IF IsChanging(path) THEN path ELSE << >>,
                   ![c].todo = IF IsChanging(path) THEN call[c].todo
                               ELSE call[c].todo \ {path}]
    /\ UNCHANGED <<extVars, wsVars, tsVars, storeVars, histVars, mu, nCallbacks, gos, watchers, wmu, calls,
                   invoked, dueAll, dueMerged>>

\* data := dm.GetByPath(watcher.path); a non-nil value is sent unless the channel is full
DMNotifyGet(c) ==
    /\ call[c].pc = "notifyget"
    /\ CanRLock
    /\ LET path == call[c].cur
           v    == GetByPath(path)
       IN  /\ watchers' = IF v # Null /\ Len(watchers[path]) < WatchBuffer
                          THEN [watchers EXCEPT ![path] = Append(@, v)]
                          ELSE watchers
           /\ call' = [call EXCEPT ![c].saw = call[c].saw \cup {Seen},
                                   ![c].pc = "notifying",
                                   ![c].cur = << >>,
                                   ![c].todo = call[c].todo \ {path}]
    /\ UNCHANGED <<extVars, wsVars, tsVars, storeVars, histVars, mu, nCallbacks, gos, wmu, calls,
                   invoked, dueAll, dueMerged>>

\* the deferred dm.watchersMu.RUnlock(); MergeData returns
DMNotifyEnd(c) ==
    /\ call[c].pc = "notifying"
    /\ call[c].todo = {}
    /\ wmu' = wmu - 1
    /\ call' = [call EXCEPT ![c] = IdleCall]
    /\ UNCHANGED <<extVars, wsVars, tsVars, storeVars, histVars, mu, nCallbacks, gos, watchers, calls,
                   invoked, dueAll, dueMerged>>

\* the scheduler starts a callback goroutine
GoStart(g) ==
    /\ g.pc = "spawned"
    /\ gos' = (gos \ {g}) \cup {[g EXCEPT !.pc = "started"]}
    /\ UNCHANGED <<extVars, wsVars, tsVars, storeVars, histVars, mu, nCallbacks, call, watchers, wmu, calls,
                   invoked, dueAll, dueMerged>>

\* the callback reads the store through an accessor: dm.mu.RLock()
GoRead(g) ==
    /\ g.pc = "started"
    /\ CanRLock
    /\ mu' = [mu EXCEPT !.r = mu.r + 1]
    /\ gos' = (gos \ {g}) \cup {[g EXCEPT !.pc = "reading"]}
    /\ UNCHANGED <<extVars, wsVars, tsVars, storeVars, histVars, nCallbacks, call, watchers, wmu, calls,
                   invoked, dueAll, dueMerged>>

\* dm.mu.RUnlock(); the callback returns
GoDone(g) ==
    /\ g.pc = "reading"
    /\ mu' = [mu EXCEPT !.r = mu.r - 1]
    /\ gos' = gos \ {g}
    /\ UNCHANGED <<extVars, wsVars, tsVars, storeVars, histVars, nCallbacks, call, watchers, wmu, calls,
                   invoked, dueAll, dueMerged>>

DMNext ==
    \/ OnData
    \/ \E path \in WatchPaths : Watch(path)
    \/ \E c \in Callers, source \in DMSources :
           DMCall(c, source, FromServer(c), FromServer(c))
    \/ \E c \in Callers : DMLock(c)
    \/ \E c \in Callers : DMMergeItem(c)
    \/ \E c \in Callers : DMFire(c)
    \/ \E c \in Callers : DMUnlock(c)
    \/ \E c \in Callers : DMNotifyBegin(c)
    \/ \E c \in Callers, path \in WatchPaths : DMNotifyCheck(c, path)
    \/ \E c \in Callers : DMNotifyGet(c)
    \/ \E c \in Callers : DMNotifyEnd(c)
    \/ \E g \in gos : GoStart(g)
    \/ \E g \in gos : GoRead(g)
    \/ \E g \in gos : GoDone(g)

SpecDM == DMInit /\ [][DMNext]_vars

----------------------------------------------------------------------------
(* The quote channel: TqWebsocket and TqQuoteWebsocket *)

\* view_width.(float64): the assertion holds for a float64 only
IsFloat64(vw) == vw.t = "float64"

\* json.Marshal of an ins_list
marshal(v) == <<"\"", v, "\"">>

\* mutant of SameInsList: the request is never taken for a repeat
SameInsListNever(old, new) == FALSE

\* string(oldList) == string(newList)
SameInsList(old, new) == marshal(old.key) = marshal(new.key)

\* TqQuoteWebsocket.Send up to the call of TqWebsocket.Send: what it records
\* and whether the request is forwarded
Recorded(sub, ch, m) ==
    IF m.aid = "subscribe_quote"
    THEN IF sub = NoSub \/ ~SameInsList(sub, m)
         THEN [sub |-> m, charts |-> ch, forward |-> TRUE]
         ELSE [sub |-> sub, charts |-> ch, forward |-> FALSE]
    ELSE IF m.aid = "set_chart"
    THEN IF IsFloat64(m.vw) /\ m.vw.n = 0
         THEN [sub |-> sub,
               charts |-> [id \in DOMAIN ch \ {m.key} |-> ch[id]],
               forward |-> TRUE]
         ELSE [sub |-> sub,
               charts |-> [id \in DOMAIN ch \cup {m.key} |->
                              IF id = m.key THEN m ELSE ch[id]],
               forward |-> TRUE]
    ELSE [sub |-> sub, charts |-> ch, forward |-> TRUE]

IsReady == status = "Open" /\ conn # 0

\* TqWebsocket.Send: write if ready (the write fails on a dead socket), else queue
BaseSend(q, w, f) ==
    IF IsReady
    THEN [queue |-> q, wire |-> IF connAlive THEN Append(w, f) ELSE w]
    ELSE [queue |-> Append(q, f), wire |-> w]

\* TqQuoteWebsocket.Send(m) by goroutine `by`, on queue q and wire w
QuoteSend(sub, ch, q, w, m, by) ==
    LET r == Recorded(sub, ch, m)
        o == IF r.forward THEN BaseSend(q, w, Tagged(m, by))
             ELSE [queue |-> q, wire |-> w]
    IN  [sub |-> r.sub, charts |-> r.charts, queue |-> o.queue, wire |-> o.wire]

\* the requests a user sends: subscribe_quote; set_chart from a
\* SeriesSubscription (int view_width, 0 on Close) or from TQSDK.SetChart
\* with a caller's float64
UserRequests ==
    { Sub("X"), Sub("Y"),
      Chart("c1", IntVW(10)), Chart("c1", FloatVW(10)),
      Chart("c1", IntVW(0)), Chart("c1", FloatVW(0)) }

WsInit ==
    /\ data = Skeleton
    /\ epoch = 0
    /\ diffs = << >>
    /\ prevData = data
    /\ prevEpoch = 0
    /\ lastArr = << >>
    /\ lastInc = FALSE
    /\ lastOk = FALSE
    /\ merges = 0
    /\ DMIdle
    /\ WsIdle
    /\ TsIdle
    /\ ExtIdle

\* Init(isReconnection) up to websocket.Dial: a dial can fail, and does so on
\* a cancelled context; on failure Init returns the error
InitDial(t) ==
    /\ th[t].pc = "init"
    /\ reconnectTimes' = IF t = "timer" /\ reconnectUrlIndex = UrlCount - 1
                         THEN reconnectTimes + 1 ELSE reconnectTimes
    /\ \E ok \in BOOLEAN :
           /\ ok => ~ctxDone
           /\ IF ok
              THEN /\ dials' = dials + 1
                   /\ th' = [th EXCEPT ![t].pc = "dialed", ![t].c = dials + 1]
                   /\ UNCHANGED initFailed
              ELSE /\ th' = [th EXCEPT ![t] = IdleThread]
                   /\ initFailed' = TRUE
                   /\ UNCHANGED dials
    /\ UNCHANGED <<extVars, storeVars, histVars, dmVars, tsVars, status, conn, connAlive, ctxDone,
                   queue, reconnect, reconnectUrlIndex, reconnectTask, dead,
                   subscribeQuote, charts, chartsMu, wire, frames, sends, loops,
                   firstInboundAt, connBy, hadSub, hadCharts, closeReturned,
                   lateReconnect>>

\* Init after a successful dial: ws.conn = conn, status Open, flushQueue,
\* go receiveLoop()
InitOpen(t) ==
    /\ th[t].pc = "dialed"
    /\ conn' = th[t].c
    /\ connAlive' = TRUE
    /\ status' = "Open"
    /\ wire' = queue
    /\ queue' = << >>
    /\ loops' = loops \cup {[id |-> th[t].c, pc |-> "loop"]}
    /\ th' = [th EXCEPT ![t] = IdleThread]
    /\ connBy' = t
    /\ firstInboundAt' = -1
    /\ hadSub' = th[t].sub
    /\ hadCharts' = th[t].active
    /\ UNCHANGED <<extVars, storeVars, histVars, dmVars, tsVars, ctxDone, reconnect, reconnectTimes,
                   reconnectUrlIndex, reconnectTask, dead, subscribeQuote, charts,
                   chartsMu, dials, frames, sends, initFailed, closeReturned,
                   lateReconnect>>

\* a user goroutine calls TqQuoteWebsocket.Send(m)
UserSend(m) ==
    /\ sends < MaxSends
    /\ sends' = sends + 1
    /\ m.aid = "set_chart" => chartsMu = 0
    /\ LET o == QuoteSend(subscribeQuote, charts, queue, wire, m, "user")
       IN  /\ subscribeQuote' = o.sub
           /\ charts' = o.charts
           /\ queue' = o.queue
           /\ wire' = o.wire
    /\ UNCHANGED <<extVars, storeVars, histVars, dmVars, tsVars, status, conn, connAlive, ctxDone,
                   reconnect, reconnectTimes, reconnectUrlIndex, reconnectTask, dead,
                   chartsMu, dials, frames, loops, th, firstInboundAt, connBy,
                   hadSub, hadCharts, initFailed, closeReturned, lateReconnect>>

\* Close(): reconnect = false; stop the timer if there is one; cancel the
\* context; close the connection if there is one
Close ==
    /\ ~closeReturned
    /\ closeReturned' = TRUE
    /\ reconnect' = FALSE
    /\ reconnectTask' = IF reconnectTask = "pending" THEN "stopped" ELSE reconnectTask
    /\ ctxDone' = TRUE
    /\ IF conn # 0
       THEN connAlive' = FALSE /\ status' = "Closed"
       ELSE UNCHANGED <<connAlive, status>>
    /\ UNCHANGED <<extVars, storeVars, histVars, dmVars, tsVars, conn, queue, reconnectTimes,
                   reconnectUrlIndex, dead, subscribeQuote, charts, chartsMu, wire,
                   dials, frames, sends, loops, th, firstInboundAt, connBy, hadSub,
                   hadCharts, initFailed, lateReconnect>>

\* the server or the network drops the connection
ServerDrop ==
    /\ connAlive
    /\ connAlive' = FALSE
    /\ UNCHANGED <<extVars, storeVars, histVars, dmVars, tsVars, status, conn, ctxDone, queue,
                   reconnect, reconnectTimes, reconnectUrlIndex, reconnectTask, dead,
                   subscribeQuote, charts, chartsMu, wire, dials, frames, sends,
                   loops, th, firstInboundAt, connBy, hadSub, hadCharts, initFailed,
                   closeReturned, lateReconnect>>

\* receiveLoop reads an rtn_data frame: onMessage merges it, then peek_message
RecvData(l, payload) ==
    /\ l \in loops /\ l.pc = "loop"
    /\ ~ctxDone /\ connAlive
    /\ frames < MaxFrames
    /\ frames' = frames + 1
    /\ MergeData(payload, TRUE, TRUE)
    /\ firstInboundAt' = IF firstInboundAt < 0 THEN Len(wire) ELSE firstInboundAt
    /\ LET o == BaseSend(queue, wire, Tagged(Peek, "recv"))
       IN  queue' = o.queue /\ wire' = o.wire
    /\ UNCHANGED <<extVars, merges, dmVars, tsVars, status, conn, connAlive, ctxDone, reconnect,
                   reconnectTimes, reconnectUrlIndex, reconnectTask, dead,
                   subscribeQuote, charts, chartsMu, dials, sends, loops, th,
                   connBy, hadSub, hadCharts, initFailed, closeReturned,
                   lateReconnect>>

\* receiveLoop reads a frame that is not JSON: logged, dropped, continue
RecvMalformed(l) ==
    /\ l \in loops /\ l.pc = "loop"
    /\ ~ctxDone /\ connAlive
    /\ frames < MaxFrames
    /\ frames' = frames + 1
    /\ UNCHANGED <<extVars, storeVars, histVars, dmVars, tsVars, status, conn, connAlive, ctxDone,
                   queue, reconnect, reconnectTimes, reconnectUrlIndex, reconnectTask,
                   dead, subscribeQuote, charts, chartsMu, wire, dials, sends, loops,
                   th, firstInboundAt, connBy, hadSub, hadCharts, initFailed,
                   closeReturned, lateReconnect>>

\* receiveLoop returns: the context is done, or the read failed
RecvExit(l) ==
    /\ l \in loops /\ l.pc = "loop"
    /\ ctxDone \/ ~connAlive
    /\ loops' = (loops \ {l}) \cup {[l EXCEPT !.pc = "defer"]}
    /\ UNCHANGED <<extVars, storeVars, histVars, dmVars, tsVars, status, conn, connAlive, ctxDone,
                   queue, reconnect, reconnectTimes, reconnectUrlIndex, reconnectTask,
                   dead, subscribeQuote, charts, chartsMu, wire, dials, frames, sends,
                   th, firstInboundAt, connBy, hadSub, hadCharts, initFailed,
                   closeReturned, lateReconnect>>

\* the deferred ws.setStatus(StatusClosed)
RecvDefer(l) ==
    /\ l \in loops /\ l.pc = "defer"
    /\ status' = "Closed"
    /\ loops' = (loops \ {l}) \cup {[l EXCEPT !.pc = "handleClose"]}
    /\ UNCHANGED <<extVars, storeVars, histVars, dmVars, tsVars, conn, connAlive, ctxDone, queue,
                   reconnect, reconnectTimes, reconnectUrlIndex, reconnectTask, dead,
                   subscribeQuote, charts, chartsMu, wire, dials, frames, sends, th,
                   firstInboundAt, connBy, hadSub, hadCharts, initFailed,
                   closeReturned, lateReconnect>>

\* handleClose up to the timer: onClose, clear the queue, read ws.reconnect,
\* and either fire onDeath or go on to schedule the reconnect
handleClose(l) ==
    /\ l \in loops /\ l.pc = "handleClose"
    /\ queue' = << >>
    /\ IF reconnect /\ reconnectTimes < ReconnectMaxTimes
       THEN loops' = (loops \ {l}) \cup {[l EXCEPT !.pc = "schedule"]}
       ELSE loops' = loops \ {l}
    /\ dead' = (dead \/ (reconnect /\ reconnectTimes >= ReconnectMaxTimes))
    /\ UNCHANGED <<extVars, storeVars, histVars, dmVars, tsVars, status, conn, connAlive, ctxDone,
                   reconnect, reconnectTimes, reconnectUrlIndex, reconnectTask,
                   subscribeQuote, charts, chartsMu, wire, dials, frames, sends, th,
                   firstInboundAt, connBy, hadSub, hadCharts, initFailed,
                   closeReturned, lateReconnect>>

\* ws.reconnectTask = time.AfterFunc(ws.config.ReconnectInterval, ...)
Schedule(l) ==
    /\ l \in loops /\ l.pc = "schedule"
    /\ reconnectTask' = "pending"
    /\ loops' = loops \ {l}
    /\ UNCHANGED <<extVars, storeVars, histVars, dmVars, tsVars, status, conn, connAlive, ctxDone,
                   queue, reconnect, reconnectTimes, reconnectUrlIndex, dead,
                   subscribeQuote, charts, chartsMu, wire, dials, frames, sends, th,
                   firstInboundAt, connBy, hadSub, hadCharts, initFailed,
                   closeReturned, lateReconnect>>

\* the interval elapses: the timer starts its function in a goroutine
TimerFire ==
    /\ reconnectTask = "pending"
    /\ th["timer"].pc = "none"
    /\ reconnectTask' = "fired"
    /\ th' = [th EXCEPT !["timer"].pc = "callback"]
    /\ UNCHANGED <<extVars, storeVars, histVars, dmVars, tsVars, status, conn, connAlive, ctxDone,
                   queue, reconnect, reconnectTimes, reconnectUrlIndex, dead,
                   subscribeQuote, charts, chartsMu, wire, dials, frames, sends,
                   loops, firstInboundAt, connBy, hadSub, hadCharts, initFailed,
                   closeReturned, lateReconnect>>

\* the timer's function: next url, then onReconnect: Send(subscribeQuote) if
\* there is one, and chartsMu.RLock()
OnReconnect ==
    /\ th["timer"].pc = "callback"
    /\ reconnectUrlIndex' = (reconnectUrlIndex + 1) % UrlCount
    /\ LET o == IF subscribeQuote # NoSub
                THEN QuoteSend(subscribeQuote, charts, queue, wire,
                               subscribeQuote, "reconnect")
                ELSE [sub |-> subscribeQuote, charts |-> charts,
                      queue |-> queue, wire |-> wire]
       IN  /\ subscribeQuote' = o.sub
           /\ queue' = o.queue
           /\ wire' = o.wire
    /\ chartsMu' = chartsMu + 1
    /\ th' = [th EXCEPT !["timer"] =
                 [pc |-> "charts", c |-> 0, todo |-> DOMAIN charts,
                  sub |-> subscribeQuote,
                  active |-> {id \in DOMAIN charts : charts[id].vw.n # 0}]]
    /\ lateReconnect' = (lateReconnect \/ closeReturned)
    /\ UNCHANGED <<extVars, storeVars, histVars, dmVars, tsVars, status, conn, connAlive, ctxDone,
                   reconnect, reconnectTimes, reconnectTask, dead, charts, dials,
                   frames, sends, loops, firstInboundAt, connBy, hadSub, hadCharts,
                   initFailed, closeReturned>>

\* onReconnect, one chart of the range: a chart whose view_width is a positive
\* float64 is sent again with Send, which waits for chartsMu.Lock()
ResendChart(id) ==
    /\ th["timer"].pc = "charts"
    /\ id \in th["timer"].todo
    /\ LET chart == charts[id]
       IN  IF IsFloat64(chart.vw) /\ chart.vw.n > 0
           THEN /\ chartsMu = 0
                /\ LET o == QuoteSend(subscribeQuote, charts, queue, wire,
                                      chart, "reconnect")
                   IN  charts' = o.charts /\ queue' = o.queue /\ wire' = o.wire
           ELSE UNCHANGED <<charts, queue, wire>>
    /\ th' = [th EXCEPT !["timer"].todo = @ \ {id}]
    /\ UNCHANGED <<extVars, storeVars, histVars, dmVars, tsVars, status, conn, connAlive, ctxDone,
                   reconnect, reconnectTimes, reconnectUrlIndex, reconnectTask, dead,
                   subscribeQuote, chartsMu, dials, frames, sends, loops,
                   firstInboundAt, connBy, hadSub, hadCharts, initFailed,
                   closeReturned, lateReconnect>>

\* onReconnect returns: chartsMu.RUnlock(); the timer's function calls Init(true)
ResendDone ==
    /\ th["timer"].pc = "charts"
    /\ th["timer"].todo = {}
    /\ chartsMu' = chartsMu - 1
    /\ th' = [th EXCEPT !["timer"].pc = "init"]
    /\ UNCHANGED <<extVars, storeVars, histVars, dmVars, tsVars, status, conn, connAlive, ctxDone,
                   queue, reconnect, reconnectTimes, reconnectUrlIndex, reconnectTask,
                   dead, subscribeQuote, charts, wire, dials, frames, sends, loops,
                   firstInboundAt, connBy, hadSub, hadCharts, initFailed,
                   closeReturned, lateReconnect>>

WsPayloads == {Doc2("quotes", "au", Bar(1))}

WsNext ==
    \/ \E t \in {"user", "timer"} : InitDial(t)
    \/ \E t \in {"user", "timer"} : InitOpen(t)
    \/ \E m \in UserRequests : UserSend(m)
    \/ Close
    \/ ServerDrop
    \/ \E l \in loops, payload \in WsPayloads : RecvData(l, payload)
    \/ \E l \in loops : RecvMalformed(l)
    \/ \E l \in loops : RecvExit(l)
    \/ \E l \in loops : RecvDefer(l)
    \/ \E l \in loops : handleClose(l)
    \/ \E l \in loops : Schedule(l)
    \/ TimerFire
    \/ OnReconnect
    \/ \E id \in DOMAIN charts : ResendChart(id)
    \/ ResendDone

SpecWs == WsInit /\ [][WsNext]_vars

----------------------------------------------------------------------------
(* The quote channel: the recorded charts *)

ChartIds == {"c1", "c2"}

\* the set_chart requests: a SeriesSubscription sends an int view_width, and
\* TQSDK.SetChart passes on the caller's value, a float64 when it was decoded
ChartRequests ==
    {Chart(id, vw) : id \in ChartIds, vw \in {IntVW(10), FloatVW(10), FloatVW(0)}}

chOnly == <<storeVars, histVars, dmVars, tsVars, tcVars, srVars, vwVars, rlVars, flVars,
            wtVars, acVars, moreVars>>

\* TqQuoteWebsocket.Send(m), with the request remembered per chart_id
ChSend(m) ==
    /\ sends < MaxSends
    /\ sends' = sends + 1
    /\ m.aid = "set_chart" => chartsMu = 0
    /\ LET o == QuoteSend(subscribeQuote, charts, queue, wire, m, "user")
       IN  /\ subscribeQuote' = o.sub
           /\ charts' = o.charts
           /\ queue' = o.queue
           /\ wire' = o.wire
    /\ chLast' = IF m.aid = "set_chart"
                 THEN [id \in DOMAIN chLast \cup {m.key} |->
                          IF id = m.key THEN m ELSE chLast[id]]
                 ELSE chLast
    /\ UNCHANGED <<chOnly, status, conn, connAlive, ctxDone, reconnect, reconnectTimes,
                   reconnectUrlIndex, reconnectTask, dead, chartsMu, dials, frames,
                   loops, th, firstInboundAt, connBy, hadSub, hadCharts, initFailed,
                   closeReturned, lateReconnect>>

\* SeriesSubscription.Close, lines 519-543: the cancelling set_chart it sends
\* carries the untyped constant 0, an int
CloseRequest(id) == Chart(id, IntVW(0))

ChNext ==
    \/ InitDial("user")
    \/ InitOpen("user")
    \/ \E m \in ChartRequests : ChSend(m)
    \/ \E id \in ChartIds : ChSend(CloseRequest(id))

SpecCharts == WsInit /\ [][ChNext]_vars

----------------------------------------------------------------------------
(* The receive loop step by step: read, decode, onMessage, peek_message *)

\* what receiveLoop has done with a frame it has just read
NewFrame(ok) == [ok |-> ok, handled |-> FALSE, peeks |-> 0, fate |-> "none"]

rlOnly == <<storeVars, histVars, dmVars, tsVars, tcVars, srVars, vwVars, lateVars>>

\* receiveLoop, lines 1288-1295: json.Unmarshal fails: log and `continue`
DecodeFailedReturn(l) == [l EXCEPT !.pc = "defer"]

DecodeFailed(l) == l

\* receiveLoop, lines 1272-1295: conn.Read returns a frame and json.Unmarshal
\* decodes it or fails; on failure the loop logs and continues
RlRead(l, ok) ==
    /\ l \in loops /\ l.pc = "loop"
    /\ ~ctxDone /\ connAlive
    /\ frames < MaxFrames
    /\ frames' = frames + 1
    /\ rlLog' = Append(rlLog, NewFrame(ok))
    /\ rlCur' = [id \in DOMAIN rlCur \cup {l.id} |->
                    IF id = l.id THEN frames + 1 ELSE rlCur[id]]
    /\ loops' = (loops \ {l}) \cup {IF ok THEN [l EXCEPT !.pc = "onMessage"]
                                            ELSE DecodeFailed(l)}
    /\ UNCHANGED <<rlOnly, status, conn, connAlive, ctxDone, queue, reconnect,
                   reconnectTimes, reconnectUrlIndex, reconnectTask, dead,
                   subscribeQuote, charts, chartsMu, wire, dials, sends, th,
                   firstInboundAt, connBy, hadSub, hadCharts, initFailed,
                   closeReturned, lateReconnect>>

\* receiveLoop, lines 1297-1300: ws.onMessage(data), which for rtn_data is
\* MergeData(data["data"], true, true)
RlOnMessage(l, payload) ==
    /\ l \in loops /\ l.pc = "onMessage"
    /\ MergeData(payload, TRUE, TRUE)
    /\ firstInboundAt' = IF firstInboundAt < 0 THEN Len(wire) ELSE firstInboundAt
    /\ rlLog' = [rlLog EXCEPT ![rlCur[l.id]].handled = TRUE]
    /\ loops' = (loops \ {l}) \cup {[l EXCEPT !.pc = "peek"]}
    /\ UNCHANGED <<merges, dmVars, tsVars, tcVars, srVars, vwVars, lateVars, rlCur, status, conn,
                   connAlive, ctxDone, queue, reconnect, reconnectTimes,
                   reconnectUrlIndex, reconnectTask, dead, subscribeQuote, charts,
                   chartsMu, wire, dials, frames, sends, th, connBy, hadSub,
                   hadCharts, initFailed, closeReturned, lateReconnect>>

\* what becomes of a frame handed to Send: written, lost with the failed
\* write, or put on the queue
FateOfSend == IF IsReady THEN (IF connAlive THEN "wire" ELSE "lost") ELSE "queue"

\* receiveLoop, lines 1302-1303: ws.Send(map[string]string{"aid": "peek_message"})
PeekBeforeOnMessage(l) == l.pc = "onMessage"

PeekAfterOnMessage(l) == l.pc = "peek"

RlPeek(l) ==
    /\ l \in loops /\ PeekAfterOnMessage(l)
    /\ LET o == BaseSend(queue, wire, Tagged(Peek, "recv"))
       IN  queue' = o.queue /\ wire' = o.wire
    /\ rlLog' = [rlLog EXCEPT ![rlCur[l.id]].peeks = @ + 1,
                              ![rlCur[l.id]].fate = FateOfSend]
    /\ loops' = (loops \ {l}) \cup {[l EXCEPT !.pc = "loop"]}
    /\ UNCHANGED <<rlOnly, rlCur, status, conn, connAlive, ctxDone, reconnect,
                   reconnectTimes, reconnectUrlIndex, reconnectTask, dead,
                   subscribeQuote, charts, chartsMu, dials, frames, sends, th,
                   firstInboundAt, connBy, hadSub, hadCharts, initFailed,
                   closeReturned, lateReconnect>>

RlNext ==
    \/ \E t \in {"user", "timer"} : InitDial(t)
    \/ \E t \in {"user", "timer"} : InitOpen(t)
    \/ Close
    \/ ServerDrop
    \/ \E l \in loops, ok \in BOOLEAN : RlRead(l, ok)
    \/ \E l \in loops, payload \in WsPayloads : RlOnMessage(l, payload)
    \/ \E l \in loops : RlPeek(l)
    \/ \E l \in loops : RecvExit(l)
    \/ \E l \in loops : RecvDefer(l)
    \/ \E l \in loops : handleClose(l)
    \/ \E l \in loops : Schedule(l)
    \/ TimerFire
    \/ OnReconnect
    \/ ResendDone

SpecRecv == WsInit /\ [][RlNext]_vars

----------------------------------------------------------------------------
(* Send and Init step by step: the queue and its flush *)

\* the frames the user hands to TqWebsocket.Send, one after the other
SendNames == <<"X", "Y", "Z", "W">>

flOnly == <<storeVars, histVars, dmVars, tsVars, tcVars, srVars, vwVars, rlVars, wtVars,
           acVars, chVars, moreVars>>

\* Init, lines 1176-1177: ws.conn = conn; ws.setStatus(StatusOpen)
FlOpen(t) ==
    /\ th[t].pc = "dialed"
    /\ conn' = th[t].c
    /\ connAlive' = TRUE
    /\ status' = "Open"
    /\ wire' = << >>
    /\ th' = [th EXCEPT ![t].pc = "flush"]
    /\ connBy' = t
    /\ firstInboundAt' = -1
    /\ hadSub' = th[t].sub
    /\ hadCharts' = th[t].active
    /\ UNCHANGED <<flOnly, flVars, ctxDone, queue, reconnect, reconnectTimes,
                   reconnectUrlIndex, reconnectTask, dead, subscribeQuote, charts,
                   chartsMu, dials, frames, sends, loops, initFailed, closeReturned,
                   lateReconnect>>

\* flushQueue, one turn of its loop under queueMu: the head of the queue is
\* taken off and written while IsReady
FlFlushOne(t) ==
    /\ th[t].pc = "flush"
    /\ queue # << >>
    /\ IsReady
    /\ queue' = Tail(queue)
    /\ wire' = IF connAlive THEN Append(wire, Head(queue)) ELSE wire
    /\ flWritten' = Append(flWritten, Head(queue))
    /\ UNCHANGED <<flOnly, flSend, flLog, status, conn, connAlive, ctxDone, reconnect,
                   reconnectTimes, reconnectUrlIndex, reconnectTask, dead,
                   subscribeQuote, charts, chartsMu, dials, frames, sends, loops, th,
                   firstInboundAt, connBy, hadSub, hadCharts, initFailed,
                   closeReturned, lateReconnect>>

\* flushQueue returns; Init, line 1188: go ws.receiveLoop()
FlStart(t) ==
    /\ th[t].pc = "flush"
    /\ queue = << >> \/ ~IsReady
    /\ loops' = loops \cup {[id |-> th[t].c, pc |-> "loop"]}
    /\ th' = [th EXCEPT ![t] = IdleThread]
    /\ UNCHANGED <<flOnly, flVars, status, conn, connAlive, ctxDone, queue, reconnect,
                   reconnectTimes, reconnectUrlIndex, reconnectTask, dead,
                   subscribeQuote, charts, chartsMu, wire, dials, frames, sends,
                   firstInboundAt, connBy, hadSub, hadCharts, initFailed,
                   closeReturned, lateReconnect>>

\* Send, lines 1194-1209: the frame is serialised and ws.IsReady() is read
FsCall ==
    /\ flSend.pc = "none"
    /\ sends < MaxSends
    /\ sends' = sends + 1
    /\ LET f == Tagged(Sub(SendNames[sends + 1]), "user")
       IN  /\ flSend' = [pc |-> IF IsReady THEN "write" ELSE "queue", f |-> f]
           /\ flLog' = Append(flLog, [f |-> f, ready |-> IsReady])
    /\ UNCHANGED <<flOnly, flWritten, status, conn, connAlive, ctxDone, queue,
                   reconnect, reconnectTimes, reconnectUrlIndex, reconnectTask, dead,
                   subscribeQuote, charts, chartsMu, wire, dials, frames, loops, th,
                   firstInboundAt, connBy, hadSub, hadCharts, initFailed,
                   closeReturned, lateReconnect>>

\* queueMu is held by a flushQueue in progress
QueueLocked == \E t \in DOMAIN th : th[t].pc = "flush"

\* Send, lines 1214-1226: conn.Write on the branch taken when ready, else
\* append to the queue under queueMu
FsDo ==
    /\ flSend.pc # "none"
    /\ IF flSend.pc = "write"
       THEN /\ wire' = IF connAlive THEN Append(wire, flSend.f) ELSE wire
            /\ flWritten' = Append(flWritten, flSend.f)
            /\ UNCHANGED queue
       ELSE /\ ~QueueLocked
            /\ queue' = Append(queue, flSend.f)
            /\ UNCHANGED <<wire, flWritten>>
    /\ flSend' = NoSend
    /\ UNCHANGED <<flOnly, flLog, status, conn, connAlive, ctxDone, reconnect,
                   reconnectTimes, reconnectUrlIndex, reconnectTask, dead,
                   subscribeQuote, charts, chartsMu, dials, frames, sends, loops, th,
                   firstInboundAt, connBy, hadSub, hadCharts, initFailed,
                   closeReturned, lateReconnect>>

FlNext ==
    \/ \E t \in {"user", "timer"} : InitDial(t)
    \/ \E t \in {"user", "timer"} : FlOpen(t)
    \/ \E t \in {"user", "timer"} : FlFlushOne(t)
    \/ \E t \in {"user", "timer"} : FlStart(t)
    \/ FsCall
    \/ FsDo
    \/ Close
    \/ ServerDrop
    \/ \E l \in loops : RecvExit(l)
    \/ \E l \in loops : RecvDefer(l)
    \/ \E l \in loops : handleClose(l)
    \/ \E l \in loops : Schedule(l)
    \/ TimerFire
    \/ OnReconnect
    \/ ResendDone

SpecFlush == WsInit /\ [][FlNext]_vars

----------------------------------------------------------------------------
(* The client's quote subscription: SubscribeQuote, AddSymbols, RemoveSymbols *)

QsSyms == {"a", "b"}

qsOnly == <<storeVars, histVars, dmVars, tsVars, tcVars, srVars, vwVars, rlVars, wtVars,
           acVars, chVars, emVars, vtVars, qcVars, scVars>>

\* the orders in which `for symbol := range qs.symbols` can visit a set
Orders(S) ==
    {o \in UNION {[1..n -> S] : n \in {Cardinality(S)}} :
        \A i, j \in 1..Cardinality(S) : i # j => o[i] # o[j]}

\* strings.Join(insList, ","): for symbols without a comma, the joined strings
\* of two lists are equal exactly when the lists are
JoinSymbols(insList) == insList

\* the symbols an ins_list names
Listed(ins) == {ins[i] : i \in 1..Len(ins)}

\* the tail shared by AddSymbols and RemoveSymbols: the symbols are ranged
\* over into insList and subscribe_quote goes to quotesWs.Send, whose error
\* is not looked at
SendSymbols(symbols) ==
    \E insList \in Orders(symbols) :
        LET m == Sub(JoinSymbols(insList))
            r == Recorded(subscribeQuote, charts, m)
            f == Tagged(m, "user")
        IN  /\ subscribeQuote' = r.sub
            /\ IF r.forward
               THEN LET o == BaseSend(queue, wire, f)
                    IN  /\ queue' = o.queue
                        /\ wire' = o.wire
                        /\ flWritten' = IF IsReady THEN Append(flWritten, f)
                                        ELSE flWritten
               ELSE UNCHANGED <<queue, wire, flWritten>>

qsRest == <<qsOnly, flSend, flLog, status, conn, connAlive, ctxDone, reconnect,
            reconnectTimes, reconnectUrlIndex, reconnectTask, dead, charts, chartsMu,
            dials, frames, loops, th, firstInboundAt, connBy, hadSub, hadCharts,
            initFailed, closeReturned, lateReconnect>>

\* a call is counted; nothing else happens on `len(symbols) == 0`
QsCalled ==
    /\ sends < MaxSends
    /\ sends' = sends + 1

\* InitMarket has returned without error: c.quotesWs is set and connected once
MarketInitialized == conn # 0

\* QuoteSubscription.AddSymbols(symbols...)
AddSymbols(symbols) ==
    /\ ~quoteSubscription.nil
    /\ QsCalled
    /\ IF symbols = {}
       THEN UNCHANGED <<quoteSubscription, subscribeQuote, queue, wire, flWritten>>
       ELSE /\ quoteSubscription' =
                   [quoteSubscription EXCEPT !.symbols = @ \cup symbols]
            /\ SendSymbols(quoteSubscription.symbols \cup symbols)
    /\ UNCHANGED qsRest

\* QuoteSubscription.RemoveSymbols(symbols...)
RemoveSymbols(symbols) ==
    /\ ~quoteSubscription.nil
    /\ QsCalled
    /\ IF symbols = {}
       THEN UNCHANGED <<quoteSubscription, subscribeQuote, queue, wire, flWritten>>
       ELSE /\ quoteSubscription' =
                   [quoteSubscription EXCEPT !.symbols = @ \ symbols]
            /\ SendSymbols(quoteSubscription.symbols \ symbols)
    /\ UNCHANGED qsRest

\* Client.SubscribeQuote(ctx, symbols...): AddSymbols on the subscription the
\* client holds, else NewQuoteSubscription, whose AddSymbols starts from none
SubscribeQuote(symbols) ==
    /\ MarketInitialized
    /\ QsCalled
    /\ quoteSubscription' =
           [nil |-> FALSE, symbols |-> quoteSubscription.symbols \cup symbols]
    /\ IF symbols = {}
       THEN UNCHANGED <<subscribeQuote, queue, wire, flWritten>>
       ELSE SendSymbols(quoteSubscription.symbols \cup symbols)
    /\ UNCHANGED qsRest

QsNext ==
    \/ \E t \in {"user", "timer"} : InitDial(t)
    \/ \E t \in {"user", "timer"} : FlOpen(t)
    \/ \E t \in {"user", "timer"} : FlFlushOne(t)
    \/ \E t \in {"user", "timer"} : FlStart(t)
    \/ \E symbols \in SUBSET QsSyms : AddSymbols(symbols)
    \/ \E symbols \in SUBSET QsSyms : RemoveSymbols(symbols)
    \/ \E symbols \in SUBSET QsSyms : SubscribeQuote(symbols)
    \/ ServerDrop
    \/ \E l \in loops : RecvExit(l)
    \/ \E l \in loops : RecvDefer(l)
    \/ \E l \in loops : handleClose(l)
    \/ \E l \in loops : Schedule(l)
    \/ TimerFire
    \/ OnReconnect
    \/ ResendDone

SpecQuoteSub == WsInit /\ [][QsNext]_vars

----------------------------------------------------------------------------
(* The event emitter: On, Once, Off and Emit on one event *)

emOnly == <<storeVars, histVars, dmVars, wsVars, tsVars, tcVars, srVars, vwVars, rlVars,
           flVars, wtVars, acVars, chVars, qsVars, vtVars, qcVars, scVars>>

Registered == {emHandlers[i].h : i \in 1..Len(emHandlers)}

\* EventEmitter.On(event, handler): the handler is appended
On(h) ==
    /\ h = OnHandler
    /\ h \notin Registered
    /\ emHandlers' = Append(emHandlers, [h |-> h, once |-> FALSE])
    /\ UNCHANGED <<emOnly, emGos, emInvoked, emEmits>>

\* EventEmitter.Once(event, handler): On(event, wrapper), where the wrapper
\* calls the handler and then Off(event, wrapper)
Once(h) ==
    /\ h = OnceHandler
    /\ h \notin Registered
    /\ emHandlers' = Append(emHandlers, [h |-> h, once |-> TRUE])
    /\ UNCHANGED <<emOnly, emGos, emInvoked, emEmits>>

RECURSIVE Off(_, _)
\* EventEmitter.Off(event, handler): the loop appends every registered
\* handler to newHandlers (the comparison with `handler` is commented out)
Off(hs, handler) ==
    IF hs = << >> THEN << >>
    ELSE <<Head(hs)>> \o Off(Tail(hs), handler)

\* EventEmitter.Emit(event, data): the handlers read under RLock are each
\* started in a goroutine
Emit ==
    /\ emEmits < MaxEmits
    /\ emEmits' = emEmits + 1
    /\ emGos' = emGos \cup {[h |-> emHandlers[i].h, once |-> emHandlers[i].once,
                             n |-> emEmits + 1] : i \in 1..Len(emHandlers)}
    /\ UNCHANGED <<emOnly, emHandlers, emInvoked>>

\* a goroutine started by Emit runs: the handler, or the wrapper of Once
EmRun(g) ==
    /\ g \in emGos
    /\ emGos' = emGos \ {g}
    /\ emInvoked' = [emInvoked EXCEPT ![g.h] = @ \cup {g.n}]
    /\ emHandlers' = IF g.once
                     THEN Off(emHandlers, [h |-> g.h, once |-> TRUE])
                     ELSE emHandlers
    /\ UNCHANGED <<emOnly, emEmits>>

EmNext ==
    \/ \E h \in {OnHandler} : On(h)
    \/ \E h \in {OnceHandler} : Once(h)
    \/ Emit
    \/ \E g \in emGos : EmRun(g)

SpecEmitter == StoreInit /\ [][EmNext]_vars

----------------------------------------------------------------------------
(* The virtual trader: orders, fills, the emit goroutines and Close *)

vtOnly == <<storeVars, histVars, dmVars, wsVars, tsVars, tcVars, srVars, vwVars, rlVars,
           flVars, wtVars, acVars, chVars, qsVars, emVars, qcVars, scVars>>

\* the volumes of the orders the user places, and the volumes the user hands
\* to SimulateTrade (an int64, which the method compares with VolumeLeft only)
InsertVolumes == {1, 2}

FillVolumes == {-1, 1, 2}

OrderIdsOf(orders) == 1..Len(orders)

VtCalled ==
    /\ ~vtPanic
    /\ vtCalls < MaxVtCalls
    /\ vtCalls' = vtCalls + 1

EmitGo(kind) == [kind |-> kind, id |-> 0, vol |-> 0]

\* VirtualTrader.InsertOrder(ctx, req): the order is stored ALIVE with
\* VolumeLeft = VolumeOrign = req.Volume, and `go vt.emitOrder(order)`
VtInsertOrder(volume) ==
    /\ VtCalled
    /\ Len(vtOrders) < MaxVtOrders
    /\ vtOrders' = Append(vtOrders, [VolumeOrign |-> volume, VolumeLeft |-> volume,
                                     Status |-> "ALIVE"])
    /\ vtGos' = vtGos \cup {EmitGo("emitOrder")}
    /\ UNCHANGED <<vtOnly, vtRunning, vtClosed, vtPanic>>

\* VirtualTrader.CancelOrder(ctx, orderID): an ALIVE order becomes FINISHED
\* with VolumeLeft 0, and `go vt.emitOrder(order)`; anything else is an error
VtCancelOrder(id) ==
    /\ VtCalled
    /\ IF id \in OrderIdsOf(vtOrders) /\ vtOrders[id].Status = "ALIVE"
       THEN /\ vtOrders' = [vtOrders EXCEPT ![id].Status = "FINISHED",
                                            ![id].VolumeLeft = 0]
            /\ vtGos' = vtGos \cup {EmitGo("emitOrder")}
       ELSE UNCHANGED <<vtOrders, vtGos>>
    /\ UNCHANGED <<vtOnly, vtRunning, vtClosed, vtPanic>>

\* SimulateTrade's tests: the order exists, is ALIVE, and volume <= VolumeLeft
CanFill(orders, id, volume) ==
    /\ id \in OrderIdsOf(orders)
    /\ orders[id].Status = "ALIVE"
    /\ ~(volume > orders[id].VolumeLeft)

\* SimulateTrade's update of the order
Filled(order, volume) ==
    LET left == order.VolumeLeft - volume
    IN  [order EXCEPT !.VolumeLeft = left,
                      !.Status = IF left = 0 THEN "FINISHED" ELSE order.Status]

\* VirtualTrader.SimulateTrade(orderID, price, volume), under vt.mu, called
\* while the goroutines `pending` wait to run: the order is updated and
\* emitTrade, emitOrder and emitAccount are started, or an error is returned
SimulateTrade(id, volume, pending) ==
    IF CanFill(vtOrders, id, volume)
    THEN /\ vtOrders' = [vtOrders EXCEPT ![id] = Filled(@, volume)]
         /\ vtGos' = pending \cup {EmitGo("emitTrade"), EmitGo("emitOrder"),
                                   EmitGo("emitAccount")}
    ELSE /\ vtGos' = pending
         /\ UNCHANGED vtOrders

VtSimulateTrade(id, volume) ==
    /\ VtCalled
    /\ SimulateTrade(id, volume, vtGos)
    /\ UNCHANGED <<vtOnly, vtRunning, vtClosed, vtPanic>>

\* VirtualTrader.UpdateMarketPrice(symbol, price): for each ALIVE order of
\* the symbol that the price fills, a goroutine is started that will call
\* SimulateTrade(orderID, price, order.VolumeLeft as read now)
VtUpdateMarketPrice(matched) ==
    /\ VtCalled
    /\ matched # {}
    /\ \A id \in matched : vtOrders[id].Status = "ALIVE"
    /\ vtGos' = vtGos \cup {[kind |-> "fill", id |-> id, vol |-> vtOrders[id].VolumeLeft] :
                            id \in matched}
    /\ UNCHANGED <<vtOnly, vtOrders, vtRunning, vtClosed, vtPanic>>

\* a goroutine of UpdateMarketPrice runs its SimulateTrade
VtFillRun(g) ==
    /\ ~vtPanic
    /\ g \in vtGos /\ g.kind = "fill"
    /\ SimulateTrade(g.id, g.vol, vtGos \ {g})
    /\ UNCHANGED <<vtOnly, vtRunning, vtClosed, vtCalls, vtPanic>>

\* `select { case ch <- v: default: }`: a send on a closed channel panics
SendPanics(closed) == closed

\* an emit goroutine runs: the non-blocking send on its channel
VtEmitRun(g) ==
    /\ ~vtPanic
    /\ g \in vtGos /\ g.kind # "fill"
    /\ vtGos' = vtGos \ {g}
    /\ vtPanic' = SendPanics(vtClosed)
    /\ UNCHANGED <<vtOnly, vtOrders, vtRunning, vtClosed, vtCalls>>

\* VirtualTrader.Close(): nothing if not running; else running = false,
\* cancel(), and the six channels are closed
VtClose ==
    /\ VtCalled
    /\ IF vtRunning
       THEN vtRunning' = FALSE /\ vtClosed' = TRUE
       ELSE UNCHANGED <<vtRunning, vtClosed>>
    /\ UNCHANGED <<vtOnly, vtOrders, vtGos, vtPanic>>

VtNext ==
    \/ \E volume \in InsertVolumes : VtInsertOrder(volume)
    \/ \E id \in 1..MaxVtOrders : VtCancelOrder(id)
    \/ \E id \in 1..MaxVtOrders, volume \in FillVolumes : VtSimulateTrade(id, volume)
    \/ \E matched \in SUBSET OrderIdsOf(vtOrders) : VtUpdateMarketPrice(matched)
    \/ \E g \in vtGos : VtFillRun(g)
    \/ \E g \in vtGos : VtEmitRun(g)
    \/ VtClose

SpecTrader == StoreInit /\ [][VtNext]_vars

----------------------------------------------------------------------------
(* The quote subscription's data callback *)

qcOnly == <<dmVars, wsVars, tsVars, tcVars, srVars, vwVars, rlVars, flVars, wtVars,
           acVars, chVars, qsVars, emVars, vtVars, scVars>>

\* the subscription's symbols
QcSymbols == {"au", "ag"}

\* rtn_data payloads: a quote of one of the symbols
QcPayloads == {Doc2("quotes", s, Bar(k)) : s \in QcSymbols, k \in {1, 2}}

\* the quote channel's onMessage for rtn_data: MergeData(data["data"], true,
\* true), which starts the subscription's callback in a goroutine
QcMerge(payload) ==
    /\ merges < MaxQcMerges
    /\ merges' = merges + 1
    /\ MergeData(payload, TRUE, TRUE)
    /\ qcSrc' = Append(qcSrc, payload)
    /\ qcGos' = IF shouldFire(data', epoch', TRUE) THEN qcGos \cup {merges + 1}
                ELSE qcGos
    /\ UNCHANGED <<qcOnly, qcLog>>

\* the callback watchQuotes registers: for each subscribed symbol,
\* IsChanging({"quotes", symbol}) decides whether the quote is sent
QcCallback(n) ==
    /\ n \in qcGos
    /\ qcGos' = qcGos \ {n}
    /\ qcLog' = qcLog \cup {[n |-> n, at |-> merges,
                             saw |-> {s \in QcSymbols : IsChanging(<<"quotes", s>>)}]}
    /\ UNCHANGED <<qcOnly, storeVars, histVars, qcSrc>>

QcNext ==
    \/ \E payload \in QcPayloads : QcMerge(payload)
    \/ \E n \in qcGos : QcCallback(n)

SpecQuoteCallback == WsInit /\ [][QcNext]_vars

----------------------------------------------------------------------------
(* Watch, UnWatch and notifyWatchers step by step *)

\* the watched paths: a mapping below klines, and a scalar at the top level
PathAu == <<"klines", "au">>

PathMore == <<"mdhis_more_data">>

WtPaths == {PathAu, PathMore}

\* what the callers merge: the frames of the quote channel carry klines and
\* flags, the user's seed is the initial mapping of a series
WtPayloads(c) ==
    IF FromServer(c)
    THEN { Doc2("klines", "au", Bar(1)),
           Doc2("klines", "au", Bar(2)),
           Doc2("klines", "ag", Bar(1)),
           Doc1("mdhis_more_data", Bool(TRUE)) }
    ELSE { Doc2("klines", "au", Bar(0)) }

wtOnly == <<dmVars, wsVars, tsVars, tcVars, srVars, vwVars, rlVars, flVars, acVars,
           chVars, moreVars>>

\* the merge of source takes the object at pathArray out of the document (a
\* null deletes it, a scalar or a list overwrites it) instead of merging into
\* it; below "quotes" a value that is not a mapping is ignored
RECURSIVE Detaches(_, _, _, _)
Detaches(source, pathArray, i, inQuotes) ==
    IF i > Len(pathArray) THEN FALSE
    ELSE IF pathArray[i] \notin DOMAIN source THEN FALSE
    ELSE LET value == source[pathArray[i]]
         IN  IF value.t = "null" THEN TRUE
             ELSE IF IsMap(value)
                  THEN Detaches(value.kv, pathArray, i + 1,
                                i = 1 /\ pathArray[i] = "quotes")
                  ELSE ~inQuotes

\* GetByPath returns the mapping of the document itself, not a copy: a
\* mapping handed out keeps following the document while it stays in it
Aged(item, source, d) ==
    IF ~item.live THEN item
    ELSE IF Detaches(source, item.path, 1, FALSE) THEN [item EXCEPT !.live = FALSE]
    ELSE [item EXCEPT !.v = getByPathLoop(d, item.path, 1)]

AgedAll(items, source, d) == [k \in DOMAIN items |-> Aged(items[k], source, d)]

\* Watch(ctx, path), lines 850-877, under watchersMu.Lock
WtWatch(path) ==
    /\ wtR = 0
    /\ path \notin DOMAIN wtReg
    /\ Len(wtChan) < MaxWatches
    /\ wtChan' = Append(wtChan, [buf |-> << >>, closed |-> FALSE, path |-> path])
    /\ wtReg' = [p \in DOMAIN wtReg \cup {path} |->
                    IF p = path THEN Len(wtChan) + 1 ELSE wtReg[p]]
    /\ UNCHANGED <<wtOnly, wtCtx, storeVars, histVars, wtCall, wtR, wtUn, wtGot, wtLog,
                   wtSrc, wtPanic>>

\* mutant of UnWatchLocked: the entry is deleted without waiting for watchersMu
UnWatchUnlocked == TRUE

\* UnWatch takes watchersMu.Lock: no notifyWatchers holds the read lock
UnWatchLocked == wtR = 0

\* UnWatch(path), lines 880-891: the entry is deleted under watchersMu.Lock
WtUnWatch(path) ==
    /\ wtUn.pc = "none"
    /\ UnWatchLocked
    /\ path \in DOMAIN wtReg
    /\ wtReg' = [p \in DOMAIN wtReg \ {path} |-> wtReg[p]]
    /\ wtUn' = [pc |-> "close", ch |-> wtReg[path]]
    /\ UNCHANGED <<wtOnly, wtCtx, storeVars, histVars, wtChan, wtCall, wtR, wtGot, wtLog,
                   wtSrc, wtPanic>>

\* UnWatch, lines 893-894, after the unlock: watcher.cancel(); close(watcher.ch)
WtUnClose ==
    /\ wtUn.pc = "close"
    /\ wtChan' = [wtChan EXCEPT ![wtUn.ch].closed = TRUE]
    /\ wtPanic' = (wtPanic \/ wtChan[wtUn.ch].closed)
    /\ wtUn' = NoUnWatch
    /\ UNCHANGED <<wtOnly, wtCtx, storeVars, histVars, wtReg, wtCall, wtR, wtGot, wtLog,
                   wtSrc>>

\* the context given to Watch is cancelled while watchers made with it are
\* registered; their watchPath goroutines, lines 899-903, return
WtCancel ==
    /\ ~wtCtx.done
    /\ DOMAIN wtReg # {}
    /\ wtCtx' = [done |-> TRUE, at |-> merges]
    /\ UNCHANGED <<wtOnly, storeVars, histVars, wtReg, wtChan, wtCall, wtR, wtUn,
                   wtGot, wtLog, wtSrc, wtPanic>>

\* MergeData(payload, epochIncrease, deleteNullObj) up to the release of dm.mu,
\* lines 82-136; notifyWatchers follows an epoch-increasing merge only
WtMerge(c, payload) ==
    /\ wtCall[c].pc = "idle"
    /\ merges' = merges + 1
    /\ MergeData(payload, FromServer(c), FromServer(c))
    /\ wtSrc' = Append(wtSrc, payload)
    /\ wtCall' = IF FromServer(c)
                 THEN [wtCall EXCEPT ![c] = [WtIdleCall EXCEPT !.pc = "notify",
                                                              !.n = merges + 1,
                                                              !.reg = wtReg]]
                 ELSE wtCall
    /\ wtChan' = [ch \in DOMAIN wtChan |->
                     [wtChan[ch] EXCEPT !.buf = AgedAll(@, payload.kv, data')]]
    /\ wtGot' = AgedAll(wtGot, payload.kv, data')
    /\ UNCHANGED <<wtOnly, wtCtx, wtReg, wtR, wtUn, wtLog, wtPanic>>

\* notifyWatchers, lines 907-910: watchersMu.RLock, then range over the watchers
WtBegin(c) ==
    /\ wtCall[c].pc = "notify"
    /\ wtR' = wtR + 1
    /\ wtCall' = [wtCall EXCEPT ![c].pc = "range", ![c].todo = DOMAIN wtReg,
                                ![c].ranged = wtReg]
    /\ UNCHANGED <<wtOnly, wtCtx, storeVars, histVars, wtReg, wtChan, wtUn, wtGot, wtLog,
                   wtSrc, wtPanic>>

\* line 911: if dm.IsChanging(watcher.path)
WtCheck(c, path) ==
    /\ wtCall[c].pc = "range"
    /\ path \in wtCall[c].todo
    /\ IF IsChanging(path)
       THEN /\ wtCall' = [wtCall EXCEPT ![c].pc = "get", ![c].cur = path,
                                       ![c].at = merges]
            /\ UNCHANGED wtLog
       ELSE /\ wtCall' = [wtCall EXCEPT ![c].todo = @ \ {path}]
            /\ wtLog' = wtLog \cup {[n |-> wtCall[c].n, at |-> merges,
                                     ch |-> wtCall[c].ranged[path],
                                     pre |-> Before(wtCall[c], path),
                                     kind |-> IF GetByPath(path) = Null
                                              THEN "absent" ELSE "unchanged"]}
    /\ UNCHANGED <<wtOnly, wtCtx, storeVars, histVars, wtReg, wtChan, wtR, wtUn, wtGot,
                   wtSrc, wtPanic>>

\* mutant of SendKind: a plain send, which waits while the channel is full
SendKindBlocking(chan) ==
    IF chan.closed THEN "closed"
    ELSE IF Len(chan.buf) < WatchBuffer THEN "sent"
    ELSE "blocked"

\* what the select of lines 914-918 does with a channel
SendKind(chan) ==
    IF chan.closed THEN "closed"
    ELSE IF Len(chan.buf) < WatchBuffer THEN "sent"
    ELSE "full"

\* lines 912-919: data := dm.GetByPath(watcher.path); a non-nil value is
\* offered to the channel without blocking
WtGet(c) ==
    /\ wtCall[c].pc = "get"
    /\ LET path == wtCall[c].cur
           ch   == wtCall[c].ranged[path]
           v    == GetByPath(path)
           kind == IF v = Null THEN "nil" ELSE SendKind(wtChan[ch])
       IN  /\ kind # "blocked"
           /\ wtChan' = IF kind = "sent"
                        THEN [wtChan EXCEPT ![ch].buf =
                                 Append(@, [v |-> v, sent |-> v, n |-> wtCall[c].n,
                                            live |-> IsMap(v), path |-> path,
                                            ch |-> ch])]
                        ELSE wtChan
           /\ wtPanic' = (wtPanic \/ kind = "closed")
           /\ wtLog' = wtLog \cup {[n |-> wtCall[c].n, at |-> wtCall[c].at, ch |-> ch,
                                    pre |-> Before(wtCall[c], path),
                                    kind |-> kind]}
           /\ wtCall' = [wtCall EXCEPT ![c].pc = "range", ![c].cur = << >>,
                                       ![c].todo = @ \ {path}]
    /\ UNCHANGED <<wtOnly, wtCtx, storeVars, histVars, wtReg, wtR, wtUn, wtGot, wtSrc>>

\* the deferred watchersMu.RUnlock; MergeData returns
WtEnd(c) ==
    /\ wtCall[c].pc = "range"
    /\ wtCall[c].todo = {}
    /\ wtR' = wtR - 1
    /\ wtCall' = [wtCall EXCEPT ![c] = WtIdleCall]
    /\ UNCHANGED <<wtOnly, wtCtx, storeVars, histVars, wtReg, wtChan, wtUn, wtGot, wtLog,
                   wtSrc, wtPanic>>

\* the consumer takes the next value from its channel
WtRecv(ch) ==
    /\ wtChan[ch].buf # << >>
    /\ wtGot' = Append(wtGot, Head(wtChan[ch].buf))
    /\ wtChan' = [wtChan EXCEPT ![ch].buf = Tail(@)]
    /\ UNCHANGED <<wtOnly, wtCtx, storeVars, histVars, wtReg, wtCall, wtR, wtUn, wtLog,
                   wtSrc, wtPanic>>

WtInit ==
    /\ data = Skeleton
    /\ epoch = 0
    /\ diffs = << >>
    /\ prevData = data
    /\ prevEpoch = 0
    /\ lastArr = << >>
    /\ lastInc = FALSE
    /\ lastOk = FALSE
    /\ merges = 0
    /\ DMIdle
    /\ WsIdle
    /\ TsIdle
    /\ ExtIdle

WtNext ==
    \/ \E path \in WtPaths : WtWatch(path)
    \/ \E path \in WtPaths : WtUnWatch(path)
    \/ WtUnClose
    \/ WtCancel
    \/ \E c \in Callers : \E payload \in WtPayloads(c) :
           merges < MaxWtMerges /\ WtMerge(c, payload)
    \/ \E c \in Callers : WtBegin(c)
    \/ \E c \in Callers, path \in WtPaths : WtCheck(c, path)
    \/ \E c \in Callers : WtGet(c)
    \/ \E c \in Callers : WtEnd(c)
    \/ \E ch \in DOMAIN wtChan : WtRecv(ch)

SpecWatch == WtInit /\ [][WtNext]_vars

\* the frames that fill the channel of the watcher on klines.au
FullPayloads == {Doc2("klines", "au", Bar(1))}

FullNext ==
    \/ WtWatch(PathAu)
    \/ \E payload \in FullPayloads : merges < MaxFill /\ WtMerge("recv", payload)
    \/ WtBegin("recv")
    \/ WtCheck("recv", PathAu)
    \/ WtGet("recv")
    \/ WtEnd("recv")
    \/ \E ch \in DOMAIN wtChan : WtRecv(ch)

SpecFull == WtInit /\ [][FullNext]_vars

\* the steps the program takes by itself: a call of MergeData or of UnWatch
\* that has begun runs to its end
WtRuns ==
    \/ WtUnClose
    \/ \E c \in Callers : WtBegin(c)
    \/ \E c \in Callers, path \in WtPaths : WtCheck(c, path)
    \/ \E c \in Callers : WtGet(c)
    \/ \E c \in Callers : WtEnd(c)

SpecWatchLive == SpecWatch /\ WF_vars(WtRuns)

----------------------------------------------------------------------------
(* The trade session: server merges, InsertOrder and processUpdate *)

User == "u"

OrderIds == <<"o1", "o2", "o3">>

RECURSIVE DocAt(_, _)
\* the document holding v at path
DocAt(path, v) == IF path = << >> THEN v ELSE Doc1(Head(path), DocAt(Tail(path), v))

OrdersPath == <<"trade", User, "orders">>

\* the initial document of NewTradeSession
TradeSkeleton ==
    [k \in {"trade"} |->
        Map([u \in {User} |->
            Map([t \in {"accounts", "trades", "positions", "orders", "his_settlements"} |->
                    IF t = "accounts" THEN Doc1("CNY", EmptyMap) ELSE EmptyMap])])]

\* the document InsertOrder merges: the order with status ALIVE
Seed(o) == DocAt(OrdersPath \o <<o>>, Doc1("status", Str("ALIVE")))

\* rtn_data payloads: the login, an account update, an update of a placed order
Login == List(<<DocAt(<<"trade", User, "session">>, Doc1("trading_day", Str("D")))>>)

Account == List(<<DocAt(<<"trade", User, "accounts", "CNY">>, Doc1("balance", Num(1)))>>)

OrderOf(o) == List(<<DocAt(OrdersPath \o <<o>>, Doc1("status", Str("FINISHED")))>>)

TradePayloads == {Login, Account} \cup {OrderOf(OrderIds[n]) : n \in 1..inserted}

\* the orders a payload contains
OrdersIn(payload) == {OrderIds[n] : n \in {m \in 1..inserted : payload = OrderOf(OrderIds[m])}}

TsInit ==
    /\ data = TradeSkeleton
    /\ epoch = 0
    /\ diffs = << >>
    /\ prevData = data
    /\ prevEpoch = 0
    /\ lastArr = << >>
    /\ lastInc = FALSE
    /\ lastOk = FALSE
    /\ merges = 0
    /\ DMIdle
    /\ WsIdle
    /\ TsIdle
    /\ ExtIdle

\* the keys of the orders mapping, as `range ordersMap` meets them
OrderKeys(d) ==
    LET v == getByPathLoop(d, OrdersPath, 1)
    IN  IF IsMap(v) THEN DOMAIN v.kv ELSE {}

\* a merge writes the orders mapping while a processOrderUpdate ranges over it:
\* the runtime may stop the process (concurrent map iteration and map write)
MayCrash(writesOrders) == writesOrders /\ \E g \in pu : g.pc = "range"

\* the trade channel's onMessage for rtn_data: MergeData(data["data"], true, true);
\* the callback registered by watchData runs processUpdate in a new goroutine
ServerMerge(payload) ==
    /\ ~crashed
    /\ serverMerges < MaxServerMerges
    /\ serverMerges' = serverMerges + 1
    /\ MergeData(payload, TRUE, TRUE)
    /\ confirmed' = confirmed \cup OrdersIn(payload)
    /\ pu' = IF shouldFire(data', epoch', TRUE)
             THEN pu \cup {[n |-> serverMerges + 1, pc |-> "head",
                            start |-> {}, visited |-> {}]}
             ELSE pu
    /\ \E crash \in BOOLEAN :
           /\ crash => MayCrash(OrdersIn(payload) # {})
           /\ crashed' = crash
    /\ UNCHANGED <<extVars, merges, dmVars, wsVars, loggedIn, inserted, emitted>>

\* InsertOrder: the request is sent, then the order is seeded with
\* MergeData(..., false, false)
InsertOrder ==
    /\ ~crashed
    /\ loggedIn
    /\ inserted < MaxOrders
    /\ inserted' = inserted + 1
    /\ MergeData(Seed(OrderIds[inserted + 1]), FALSE, FALSE)
    /\ \E crash \in BOOLEAN :
           /\ crash => MayCrash(TRUE)
           /\ crashed' = crash
    /\ UNCHANGED <<extVars, merges, dmVars, wsVars, loggedIn, serverMerges, pu, emitted,
                   confirmed>>

\* processUpdate, the session check: a session with a trading day logs in
ProcessSession(g) ==
    /\ ~crashed
    /\ g \in pu /\ g.pc = "head"
    /\ LET session == GetByPath(<<"trade", User, "session">>)
       IN  loggedIn' = (loggedIn \/ (/\ IsMap(session)
                                     /\ "trading_day" \in DOMAIN session.kv
                                     /\ session.kv["trading_day"] \notin {Null, Str("")}))
    /\ pu' = (pu \ {g}) \cup {[g EXCEPT !.pc = "orders"]}
    /\ UNCHANGED <<extVars, storeVars, histVars, dmVars, wsVars, inserted, serverMerges,
                   emitted, confirmed, crashed>>

\* processUpdate: if IsChanging(trade/user/orders) then processOrderUpdate
\* reads the orders mapping and ranges over it
ProcessOrders(g) ==
    /\ ~crashed
    /\ g \in pu /\ g.pc = "orders"
    /\ pu' = IF IsChanging(OrdersPath)
             THEN (pu \ {g}) \cup {[g EXCEPT !.pc = "get"]}
             ELSE pu \ {g}
    /\ UNCHANGED <<extVars, storeVars, histVars, dmVars, wsVars, loggedIn, inserted,
                   serverMerges, emitted, confirmed, crashed>>

\* processOrderUpdate: ordersData := GetByPath(trade/user/orders)
GetOrders(g) ==
    /\ ~crashed
    /\ g \in pu /\ g.pc = "get"
    /\ pu' = IF IsMap(GetByPath(OrdersPath))
             THEN (pu \ {g}) \cup {[g EXCEPT !.pc = "range", !.start = OrderKeys(data)]}
             ELSE pu \ {g}
    /\ UNCHANGED <<extVars, storeVars, histVars, dmVars, wsVars, loggedIn, inserted,
                   serverMerges, emitted, confirmed, crashed>>

\* one turn of the range: if IsChanging(the order's path) and the value
\* converts to an Order, emitOrder. The range is over the live mapping.
RangeOrder(g, o) ==
    /\ ~crashed
    /\ g \in pu /\ g.pc = "range"
    /\ o \in OrderKeys(data) \ g.visited
    /\ LET v == GetByPath(OrdersPath \o <<o>>)
       IN  emitted' = IF IsChanging(OrdersPath \o <<o>>) /\ IsMap(v)
                      THEN emitted \cup {[id |-> o, n |-> g.n,
                                          confirmed |-> o \in confirmed]}
                      ELSE emitted
    /\ pu' = (pu \ {g}) \cup {[g EXCEPT !.visited = @ \cup {o}]}
    /\ UNCHANGED <<extVars, storeVars, histVars, dmVars, wsVars, loggedIn, inserted,
                   serverMerges, confirmed, crashed>>

\* the range ends: every key present when it began has been visited (a key
\* added meanwhile may be skipped); processUpdate returns
RangeDone(g) ==
    /\ ~crashed
    /\ g \in pu /\ g.pc = "range"
    /\ (g.start \cap OrderKeys(data)) \subseteq g.visited
    /\ pu' = pu \ {g}
    /\ UNCHANGED <<extVars, storeVars, histVars, dmVars, wsVars, loggedIn, inserted,
                   serverMerges, emitted, confirmed, crashed>>

TsNext ==
    \/ \E payload \in TradePayloads : ServerMerge(payload)
    \/ InsertOrder
    \/ \E g \in pu : ProcessSession(g)
    \/ \E g \in pu : ProcessOrders(g)
    \/ \E g \in pu : GetOrders(g)
    \/ \E g \in pu, o \in OrderKeys(data) : RangeOrder(g, o)
    \/ \E g \in pu : RangeDone(g)

SpecTs == TsInit /\ [][TsNext]_vars

----------------------------------------------------------------------------
(* The trade session: the account channel *)

AccountPath == <<"trade", User, "accounts", "CNY">>

\* the k-th account update of the server
AccountFrame(k) == DocAt(AccountPath, Doc1("balance", Num(k)))

\* ConvertToStruct into an Account: a copy of the fields, Balance among them
ToAccount(v) ==
    [Balance |-> IF IsMap(v) /\ "balance" \in DOMAIN v.kv /\ v.kv["balance"].t = "num"
                 THEN v.kv["balance"].v ELSE 0]

acOnly == <<dmVars, wsVars, tsVars, tcVars, srVars, vwVars, rlVars, flVars, wtVars,
           chVars, moreVars>>

\* the trade channel's onMessage for rtn_data: MergeData(data["data"], true,
\* true); the callback of watchData is started in a goroutine of its own
AcMerge ==
    /\ merges < MaxAcMerges
    /\ acPending < MaxAcPending
    /\ merges' = merges + 1
    /\ MergeData(AccountFrame(merges + 1), TRUE, TRUE)
    /\ acPending' = IF shouldFire(data', epoch', TRUE) THEN acPending + 1 ELSE acPending
    /\ UNCHANGED <<acOnly, acCh, acGot, acDropped>>

\* emitAccount, lines 881-886: the send falls through when the channel is full
emitAccount(ch, account) ==
    IF Len(ch) < AccountBuffer THEN Append(ch, account) ELSE ch

\* processUpdate, lines 462-486, and processAccountUpdate, lines 503-516: if
\* the account is changing it is read, converted and handed to emitAccount
AcProcess ==
    /\ acPending > 0
    /\ acPending' = acPending - 1
    /\ LET accountData == GetByPath(AccountPath)
           emits       == IsChanging(AccountPath) /\ accountData # Null
           account     == ToAccount(accountData)
       IN  /\ acCh' = IF emits THEN emitAccount(acCh, account) ELSE acCh
           /\ acDropped' = IF emits /\ acCh' = acCh THEN acDropped + 1 ELSE acDropped
    /\ UNCHANGED <<acOnly, storeVars, histVars, acGot>>

\* the subscriber takes the next account from AccountChannel()
AcRecv ==
    /\ acCh # << >>
    /\ acGot' = Append(acGot, Head(acCh))
    /\ acCh' = Tail(acCh)
    /\ UNCHANGED <<acOnly, storeVars, histVars, acPending, acDropped>>

AcNext ==
    \/ AcMerge
    \/ AcProcess
    \/ AcRecv

SpecAccount == TsInit /\ [][AcNext]_vars

----------------------------------------------------------------------------
(* The trade session: Connect *)

\* {"aid": "req_login", "bid": broker, "user_name": userID, "password": password}
ReqLogin == [aid |-> "req_login", key |-> User, vw |-> NoVW]

\* mutant of AlreadyConnected: the session remembers that it has dialled
AlreadyDialled == loggedIn \/ tcRunning

\* Connect's test for "already connected": if ts.loggedIn { return nil }
AlreadyConnected == loggedIn

\* TradeSession.Connect, under ts.mu: return at once if already connected;
\* else ws.Init(false) dials, sets the connection, flushes the queue, and
\* Connect hands req_login to Send and starts watchData on its first success.
\* A failed dial returns the error; NewTradeSession then gives up the session.
Connect ==
    /\ ~crashed
    /\ ~tcFailed
    /\ tcConnects < MaxConnects
    /\ tcConnects' = tcConnects + 1
    /\ IF AlreadyConnected
       THEN UNCHANGED <<status, conn, connAlive, queue, wire, dials, tcLogins,
                        tcRunning, tcFailed>>
       ELSE \E ok \in BOOLEAN :
              IF ok
              THEN /\ dials' = dials + 1
                   /\ conn' = dials + 1
                   /\ connAlive' = TRUE
                   /\ status' = "Open"
                   /\ wire' = Append(queue, Tagged(ReqLogin, "user"))
                   /\ queue' = << >>
                   /\ tcLogins' = tcLogins + 1
                   /\ tcRunning' = TRUE
                   /\ UNCHANGED tcFailed
              ELSE /\ tcFailed' = (tcConnects = 0)
                   /\ UNCHANGED <<status, conn, connAlive, queue, wire, dials,
                                  tcLogins, tcRunning>>
    /\ UNCHANGED <<storeVars, histVars, dmVars, tsVars, ctxDone, reconnect,
                   reconnectTimes, reconnectUrlIndex, reconnectTask, dead,
                   subscribeQuote, charts, chartsMu, frames, sends, loops, th,
                   firstInboundAt, connBy, hadSub, hadCharts, initFailed,
                   closeReturned, lateReconnect, srVars, vwVars, rlVars, lateVars>>

\* the session at work: the server's frames arrive on the dialled connection
\* once watchData has registered processUpdate
TcServe == tcRunning /\ TsNext

TcNext ==
    \/ Connect
    \/ TcServe

SpecConn == TsInit /\ [][TcNext]_vars

----------------------------------------------------------------------------
(* The trade session: the login and IsReady *)

\* the goroutine started by Connect's `go ts.watchData()` registers
\* processUpdate as the session's only data callback
watchData ==
    /\ tcRunning
    /\ nCallbacks = 0
    /\ OnData

\* the frames that follow a req_login: the session with its trading day,
\* and an account update
ReadyPayloads == {Login, Account}

\* the callbacks MergeData starts: one goroutine for each registered callback
CallbacksStarted(d, ep) == shouldFire(d, ep, TRUE) /\ nCallbacks > 0

\* the trade channel's onMessage for rtn_data on a connection that has sent
\* req_login: MergeData(data["data"], true, true)
TradeMerge(payload) ==
    /\ tcLogins > 0
    /\ connAlive
    /\ serverMerges < MaxServerMerges
    /\ serverMerges' = serverMerges + 1
    /\ MergeData(payload, TRUE, TRUE)
    /\ pu' = IF CallbacksStarted(data', epoch')
             THEN pu \cup {[n |-> serverMerges + 1, pc |-> "head",
                            start |-> {}, visited |-> {}]}
             ELSE pu
    /\ UNCHANGED <<extVars, merges, dmVars, wsVars, loggedIn, inserted, emitted,
                   confirmed, crashed>>

\* TradeSession.IsReady()
TsIsReady == loggedIn

\* the steps of the goroutines the session has started
ReadyRuns ==
    \/ watchData
    \/ \E g \in pu : ProcessSession(g)
    \/ \E g \in pu : ProcessOrders(g)
    \/ \E g \in pu : GetOrders(g)
    \/ \E g \in pu : RangeDone(g)

ReadyNext ==
    \/ Connect
    \/ \E payload \in ReadyPayloads : TradeMerge(payload)
    \/ ReadyRuns

SpecReady == TsInit /\ [][ReadyNext]_vars

\* every goroutine that has been started gets to run
SpecReadyLive == SpecReady /\ WF_vars(ReadyRuns)

----------------------------------------------------------------------------
(* Series subscriptions: SeriesSubscription.processUpdate *)

ChartID == "c1"

\* fmt.Sprintf("%d", n)
Sprintf(n) == ToString(n)

\* toInt64 of a decoded JSON value: a number's integer, 0 for any other type
toInt64(val) == IF val.t = "num" THEN val.v ELSE 0

SymSet(kind) == {SymbolsOf(kind)[i] : i \in 1..Len(SymbolsOf(kind))}

\* where the series of an instrument lives: ticks/<symbol> or
\* klines/<symbol>/<duration>
SeriesPath(s, kind) ==
    IF kind = "tick" THEN <<"ticks", s>>
    ELSE <<"klines", s, Sprintf(DurationOf(kind))>>

\* processUpdate's dataPath: the series of Symbols[0]
DataPathOf(kind) == SeriesPath(SymA, kind)

ChartPath == <<"charts", ChartID>>

\* the path detectNewBars tests for a bar update, whatever the kind
BarUpdatePath(s, kind) == <<"klines", s, Sprintf(DurationOf(kind))>>

\* the initial document of NewTQSDK
SeriesSkeleton == [k \in {"klines", "quotes", "charts", "ticks", "trade"} |-> EmptyMap]

\* rtn_data payloads: a series with one bar or tick and its last_id; the chart
BarDoc(n) == Map([close |-> Num(n)])

SeriesDoc(n) == Map([last_id |-> Num(n), data |-> Doc1(Sprintf(n), BarDoc(n))])

KFrame(s, n) == List(<<DocAt(<<"klines", s, Sprintf(60)>>, SeriesDoc(n))>>)

TFrame(n) == List(<<DocAt(<<"ticks", SymA>>, SeriesDoc(n))>>)

ChartFrame(rdy) ==
    List(<<DocAt(ChartPath, Map([left_id |-> Num(1), right_id |-> Num(2),
                                 more_data |-> Bool(FALSE), ready |-> Bool(rdy)]))>>)

\* the K-lines of both instruments of a multi chart, sent in one frame
MFrame(n) ==
    List(<<Doc1("klines", Map([s \in {SymA, SymB} |-> Doc1(Sprintf(60), SeriesDoc(n))]))>>)

\* what the server sends to a subscription of a kind: its own series, its
\* chart, and the K-lines of an instrument some other subscription asked for
SrPayloads(kind) ==
    {ChartFrame(FALSE), ChartFrame(TRUE)}
      \cup CASE kind = "single" -> {KFrame(SymA, 1), KFrame(SymA, 2), KFrame(SymC, 1)}
             [] kind = "tick"   -> {TFrame(1), TFrame(2), KFrame(SymC, 1)}
             [] kind = "multi"  -> {MFrame(1), MFrame(2)}

\* ConvertToStruct(chartData, &ChartInfo) where chartData is not nil: the
\* entries of the mapping that ChartInfo names; anything but a mapping fails
\* to decode and leaves the chart nil
ChartInfoOf(v) ==
    IF IsMap(v)
    THEN [ok |-> TRUE,
          LeftID |-> IF "left_id" \in DOMAIN v.kv THEN toInt64(v.kv["left_id"]) ELSE 0,
          RightID |-> IF "right_id" \in DOMAIN v.kv THEN toInt64(v.kv["right_id"]) ELSE 0,
          Ready |-> "ready" \in DOMAIN v.kv /\ v.kv["ready"] = Bool(TRUE),
          MoreData |-> "more_data" \in DOMAIN v.kv /\ v.kv["more_data"] = Bool(TRUE)]
    ELSE NoChart

\* the LastID that GetKlinesData, GetTicksData and GetMultiKlinesData read
LastIDOf(v) ==
    IF IsMap(v) /\ "last_id" \in DOMAIN v.kv THEN toInt64(v.kv["last_id"]) ELSE 0

\* getTickData, getSingleKlineData, getMultiKlineData, as far as the
\* detection uses their result: the error, the current id detectNewBars finds
\* for each instrument, and the chart attached to the data
getSeries(kind) ==
    LET node(s) == GetByPath(SeriesPath(s, kind))
    IN  IF kind = "multi"
        THEN [err |-> FALSE,
              cur |-> [s \in SymSet(kind) |->
                          IF IsMap(node(SymA)) /\ IsMap(node(s))
                          THEN LastIDOf(node(s)) ELSE 0],
              chart |-> NoChart]
        ELSE [err |-> ~IsMap(node(SymA)),
              cur |-> [s \in SymSet(kind) |-> LastIDOf(node(SymA))],
              chart |-> ChartInfoOf(GetByPath(ChartPath))]

HandlerNames == {"onUpdate", "onNewBar", "onBarUpdate"}

\* a goroutine of processUpdate about to start, for the n-th frame
NewSp(n, kind) ==
    [n |-> n, pc |-> "head", hs |-> {}, cur |-> [s \in SymSet(kind) |-> 0],
     tracked |-> [s \in SymSet(kind) |-> -1],
     todo |-> << >>, chart |-> NoChart, det |-> NoChart, ready |-> FALSE,
     hasNewBar |-> FALSE, newBarIDs |-> {}, hasBarUpdate |-> FALSE,
     own |-> FALSE, rdLeft |-> -1, rdRight |-> -1, rdReady |-> FALSE]

SrInit ==
    /\ data = SeriesSkeleton
    /\ epoch = 0
    /\ diffs = << >>
    /\ prevData = data
    /\ prevEpoch = 0
    /\ lastArr = << >>
    /\ lastInc = FALSE
    /\ lastOk = FALSE
    /\ merges = 0
    /\ DMIdle
    /\ WsIdle
    /\ TsIdle
    /\ TcIdle
    /\ VwIdle("single", 1)
    /\ RlIdle
    /\ LateIdle
    /\ \E kind \in Kinds : SrIdle(kind)

srRest == <<dmVars, wsVars, tsVars, tcVars, vwVars, rlVars, lateVars>>

\* the goroutine started by NewSeriesSubscription: watch() registers
\* processUpdate with OnData
SrWatch ==
    /\ ~srCrashed
    /\ ~srWatching
    /\ srWatching' = TRUE
    /\ UNCHANGED <<storeVars, histVars, srRest, srKind, handlers, lastIDs, lastLeftID,
                   lastRightID, chartReady, sp, updates, srFrames, srCrashed>>

\* the user registers the callbacks on the subscription NewSeriesSubscription
\* returned: OnUpdate, OnNewBar and OnBarUpdate, each under sub.mu
Register ==
    /\ ~srCrashed
    /\ handlers = {}
    /\ handlers' = HandlerNames
    /\ UNCHANGED <<storeVars, histVars, srRest, srKind, srWatching, lastIDs, lastLeftID,
                   lastRightID, chartReady, sp, updates, srFrames, srCrashed>>

\* the quote channel's onMessage for rtn_data: MergeData(data["data"], true,
\* true), which starts each registered callback in a goroutine of its own
SrFrame(payload) ==
    /\ ~srCrashed
    /\ srFrames < MaxSrFrames
    /\ Cardinality(sp) < MaxSp
    /\ srFrames' = srFrames + 1
    /\ MergeData(payload, TRUE, TRUE)
    /\ sp' = IF srWatching /\ shouldFire(data', epoch', TRUE)
             THEN sp \cup {NewSp(srFrames + 1, srKind)}
             ELSE sp
    /\ UNCHANGED <<merges, srRest, srKind, srWatching, handlers, lastIDs, lastLeftID,
                   lastRightID, chartReady, updates, srCrashed>>

\* the variables a step of processUpdate leaves alone when it only moves on
spOnly == <<storeVars, histVars, srRest, srKind, srWatching, handlers, lastIDs,
            lastLeftID, lastRightID, chartReady, updates, srFrames, srCrashed>>

\* processUpdate up to detectNewBars: the handlers are copied under sub.mu;
\* return unless the data path or the chart path is changing; the series data
\* is fetched, and an error ends the update
PUHead(g) ==
    /\ ~srCrashed
    /\ g \in sp /\ g.pc = "head"
    /\ LET r == getSeries(srKind)
       IN  sp' = IF (IsChanging(DataPathOf(srKind)) \/ IsChanging(ChartPath)) /\ ~r.err
                 THEN (sp \ {g}) \cup
                      {[g EXCEPT !.pc = "read", !.hs = handlers, !.cur = r.cur,
                                 !.chart = r.chart, !.todo = SymbolsOf(srKind)]}
                 ELSE sp \ {g}
    /\ UNCHANGED spOnly

\* detectNewBars, one instrument: lastID := sub.lastIDs[symbol], outside any lock
PURead(g) ==
    /\ ~srCrashed
    /\ g \in sp /\ g.pc = "read"
    /\ LET s == Head(g.todo)
       IN  sp' = (sp \ {g}) \cup
                 {[g EXCEPT !.pc = "write", !.tracked[s] = lastIDs[s]]}
    /\ UNCHANGED spOnly

\* mutant of IsNewBar: the first data counts too
IsNewBarFromFirst(currentID, lastID) == currentID > lastID

\* detectNewBars: currentID > lastID && lastID != -1
IsNewBar(currentID, lastID) == currentID > lastID /\ lastID # -1

\* another goroutine is inside detectNewBars' loop over sub.lastIDs
OthersInLoop(g) == \E o \in sp \ {g} : o.pc \in {"read", "write"}

\* detectNewBars, the same instrument: the comparison, and
\* sub.lastIDs[symbol] = currentID, outside any lock; the runtime may stop the
\* process when another goroutine accesses the map at the same time
PUWrite(g) ==
    /\ ~srCrashed
    /\ g \in sp /\ g.pc = "write"
    /\ LET s   == Head(g.todo)
           new == IsNewBar(g.cur[s], g.tracked[s])
       IN  /\ lastIDs' = [lastIDs EXCEPT ![s] = g.cur[s]]
           /\ sp' = (sp \ {g}) \cup
                    {[g EXCEPT !.pc = IF Tail(g.todo) = << >> THEN "detect" ELSE "read",
                               !.todo = Tail(g.todo),
                               !.hasNewBar = g.hasNewBar \/ new,
                               !.newBarIDs = IF new THEN g.newBarIDs \cup {<<s, g.cur[s]>>}
                                             ELSE g.newBarIDs]}
    /\ \E crash \in BOOLEAN :
           /\ crash => OthersInLoop(g)
           /\ srCrashed' = crash
    /\ UNCHANGED <<storeVars, histVars, srRest, srKind, srWatching, handlers, lastLeftID,
                   lastRightID, chartReady, updates, srFrames>>

\* a series of the subscription was written by the merge of the current epoch
OwnModified(kind) ==
    \E s \in SymSet(kind) :
        LET v == GetByPath(SeriesPath(s, kind))
        IN  getEpochOk(v) /\ getEpoch(v) = epoch

\* detectNewBars, the end: without a new bar, HasBarUpdate is whether the
\* K-line path of some instrument is changing. detectChartRangeChange, the
\* start: the chart of a single K-line view, the chart read from the store
\* for a multi view, none for ticks; the trackers are read, outside any lock
PUDetect(g) ==
    /\ ~srCrashed
    /\ g \in sp /\ g.pc = "detect"
    /\ LET now == ChartInfoOf(GetByPath(ChartPath))
           det == CASE srKind = "single" -> g.chart
                    [] srKind = "multi"  -> now
                    [] srKind = "tick"   -> NoChart
           rep == IF srKind = "multi" THEN now ELSE g.chart
       IN  sp' = (sp \ {g}) \cup
                 {[g EXCEPT !.pc = "cwrite", !.det = det,
                            !.hasBarUpdate =
                                /\ ~g.hasNewBar
                                /\ \E s \in SymSet(srKind) :
                                       IsChanging(BarUpdatePath(s, srKind)),
                            !.own = OwnModified(srKind),
                            !.ready = rep.ok /\ rep.Ready,
                            !.rdLeft = lastLeftID, !.rdRight = lastRightID,
                            !.rdReady = chartReady]}
    /\ UNCHANGED spOnly

\* the UpdateInfo of a finished update, with what the update saw
InfoOf(g, sync) ==
    [cur |-> g.cur, tracked |-> g.tracked,
     HasNewBar |-> g.hasNewBar, NewBarIDs |-> g.newBarIDs,
     HasBarUpdate |-> g.hasBarUpdate, HasChartSync |-> sync,
     own |-> g.own, ready |-> g.ready,
     invoked |-> {h \in g.hs :
                    \/ h = "onUpdate"
                    \/ h = "onNewBar" /\ g.hasNewBar
                    \/ h = "onBarUpdate" /\ g.hasBarUpdate /\ ~g.hasNewBar}]

\* detectChartRangeChange: the trackers are written, outside any lock; then
\* processUpdate starts the callbacks
PUChartWrite(g) ==
    /\ ~srCrashed
    /\ g \in sp /\ g.pc = "cwrite"
    /\ LET moved == g.det.ok /\ (g.det.LeftID # g.rdLeft \/ g.det.RightID # g.rdRight)
           sync  == g.det.ok /\ g.det.Ready /\ ~g.rdReady
       IN  /\ lastLeftID' = IF moved THEN g.det.LeftID ELSE lastLeftID
           /\ lastRightID' = IF moved THEN g.det.RightID ELSE lastRightID
           /\ chartReady' = IF sync THEN TRUE ELSE chartReady
           /\ updates' = Append(updates, InfoOf(g, sync))
    /\ sp' = sp \ {g}
    /\ UNCHANGED <<storeVars, histVars, srRest, srKind, srWatching, handlers, lastIDs,
                   srFrames, srCrashed>>

SrNext ==
    \/ SrWatch
    \/ Register
    \/ \E payload \in SrPayloads(srKind) : SrFrame(payload)
    \/ \E g \in sp : PUHead(g)
    \/ \E g \in sp : PURead(g)
    \/ \E g \in sp : PUWrite(g)
    \/ \E g \in sp : PUDetect(g)
    \/ \E g \in sp : PUChartWrite(g)

SpecSeries == SrInit /\ [][SrNext]_vars

----------------------------------------------------------------------------
(* Series subscriptions: SeriesSubscription.Close *)

scOnly == <<storeVars, histVars, dmVars, tsVars, tcVars, vwVars, rlVars, flVars, wtVars,
            acVars, chVars, qsVars, emVars, vtVars, qcVars>>

\* Close up to wg.Wait: nothing on a subscription that is not running; else
\* running = false, the request goes to ws.Send, and the context is cancelled.
\* The callback watch() registered with OnData stays registered: DataManager
\* has no way to take one out
SrClose ==
    /\ ~srCrashed
    /\ srRunning
    /\ srRunning' = FALSE
    /\ LET o == QuoteSend(subscribeQuote, charts, queue, wire, CloseRequest(ChartID), "user")
       IN  /\ subscribeQuote' = o.sub
           /\ charts' = o.charts
           /\ queue' = o.queue
           /\ wire' = o.wire
    /\ UNCHANGED <<scOnly, srVars, srClosedAt, status, conn, connAlive, ctxDone,
                   reconnect, reconnectTimes, reconnectUrlIndex, reconnectTask, dead,
                   chartsMu, dials, frames, sends, loops, th, firstInboundAt, connBy,
                   hadSub, hadCharts, initFailed, closeReturned, lateReconnect>>

\* wg.Wait returns once watch() has returned, and watch() returns from
\* <-sub.ctx.Done(), after it has registered the callback; the goroutines of
\* processUpdate are not in the wait group
SrCloseReturn ==
    /\ ~srCrashed
    /\ ~srRunning
    /\ srClosedAt = -1
    /\ srWatching
    /\ srClosedAt' = srFrames
    /\ UNCHANGED <<scOnly, srVars, wsVars, srRunning>>

\* a subscription to the K-lines of one instrument
ScInit == SrInit /\ srKind = "single"

ScNext ==
    \/ SrClose
    \/ SrCloseReturn
    \/ SrWatch
    \/ Register
    \/ \E payload \in SrPayloads(srKind) : srFrames < MaxScFrames /\ SrFrame(payload)
    \/ \E g \in sp : PUHead(g)
    \/ \E g \in sp : PURead(g)
    \/ \E g \in sp : PUWrite(g)
    \/ \E g \in sp : PUDetect(g)
    \/ \E g \in sp : PUChartWrite(g)

SpecSeriesClose == ScInit /\ [][ScNext]_vars

----------------------------------------------------------------------------
(* Views: GetKlinesData and GetMultiKlinesData *)

\* the chart of another subscription on the same instrument and duration
OtherChartID == "c2"

\* strconv.ParseInt(s, 10, 64) of a key of a series
ParseInt(s) ==
    IF \E n \in 0..(MaxBarId + 1) : Sprintf(n) = s
    THEN [ok |-> TRUE, v |-> CHOOSE n \in 0..(MaxBarId + 1) : Sprintf(n) = s]
    ELSE [ok |-> FALSE, v |-> 0]

\* ConvertToStruct(klineData, &kline): json.Unmarshal into a struct takes an
\* object or null; a number, a string, a bool or an array is an error
KlineOf(v) ==
    [ok |-> v.t \in {"map", "null"},
     ID |-> IF IsMap(v) /\ "id" \in DOMAIN v.kv THEN toInt64(v.kv["id"]) ELSE 0,
     Close |-> IF IsMap(v) /\ "close" \in DOMAIN v.kv THEN toInt64(v.kv["close"]) ELSE 0]

\* strings.Join(symbols, ",")
RECURSIVE Join(_)
Join(symbols) ==
    IF Len(symbols) = 0 THEN ""
    ELSE IF Len(symbols) = 1 THEN symbols[1]
    ELSE symbols[1] \o "," \o Join(Tail(symbols))

\* strings.Contains(insList, symbol), for the lists of at most two instruments
Contains(insList, symbol) ==
    LET affixes == {""} \cup {s \o "," : s \in {SymA, SymB, SymC}}
                        \cup {"," \o s : s \in {SymA, SymB, SymC}}
    IN  \E pre \in affixes, post \in affixes : insList = pre \o symbol \o post

\* sort.Slice(xs, by ID) of the elements of a set
RECURSIVE SortByID(_)
SortByID(S) ==
    IF S = {} THEN << >>
    ELSE LET x == CHOOSE x \in S : \A y \in S : x.ID <= y.ID
         IN  <<x>> \o SortByID(S \ {x})

\* sort.Search(len(xs), func(i) { return xs[i].ID > rightID }) on a sorted
\* slice: the index (from 0) of the first element above rightID, or len(xs)
Search(xs, rightID) ==
    CHOOSE idx \in 0..Len(xs) :
        /\ \A j \in 1..idx : xs[j].ID <= rightID
        /\ idx < Len(xs) => xs[idx + 1].ID > rightID

\* the right_id filter of both views
FilterRight(xs, rightID) ==
    IF rightID > 0 THEN SubSeq(xs, 1, Search(xs, rightID)) ELSE xs

\* xs[len(xs)-vw:] when vw > 0 and len(xs) > vw
Trim(xs, width) ==
    IF width > 0 /\ Len(xs) > width THEN SubSeq(xs, Len(xs) - width + 1, Len(xs)) ELSE xs

\* GetKlinesData: a chart matches when its state.ins_list contains the symbol
\* and its state.duration is the duration
ChartMatches(c, symbol, duration) ==
    /\ IsMap(c)
    /\ "state" \in DOMAIN c.kv
    /\ IsMap(c.kv["state"])
    /\ "ins_list" \in DOMAIN c.kv["state"].kv
    /\ c.kv["state"].kv["ins_list"].t = "str"
    /\ Contains(c.kv["state"].kv["ins_list"].v, symbol)
    /\ "duration" \in DOMAIN c.kv["state"].kv
    /\ toInt64(c.kv["state"].kv["duration"]) = duration

\* the right_id of a chart, -1 without one
RightIDOf(c) ==
    IF IsMap(c) /\ "right_id" \in DOMAIN c.kv THEN toInt64(c.kv["right_id"]) ELSE -1

\* GetKlinesData's loop over the charts stops at the first chart that matches:
\* the values rightID can end with, one per chart the map's order can put first
RightIDs(symbol, duration) ==
    LET chartsMap == GetByPath(<<"charts">>)
        hits == IF IsMap(chartsMap)
                THEN {id \in DOMAIN chartsMap.kv : ChartMatches(chartsMap.kv[id], symbol, duration)}
                ELSE {}
    IN  IF hits = {} THEN {-1} ELSE {RightIDOf(chartsMap.kv[id]) : id \in hits}

\* allKlines of GetKlinesData: the bars that convert, in ascending order
AllKlines(klineMap) ==
    SortByID({[ID |-> IF ParseInt(id).ok THEN ParseInt(id).v ELSE KlineOf(klineMap.kv[id]).ID,
               Close |-> KlineOf(klineMap.kv[id]).Close] :
              id \in {k \in DOMAIN klineMap.kv : KlineOf(klineMap.kv[k]).ok}})

\* the bindings and the main ids GetMultiKlinesData collects from the main series
BindingOf(mainKlinesMap, symbol) ==
    LET b == IF "binding" \in DOMAIN mainKlinesMap.kv /\ IsMap(mainKlinesMap.kv["binding"])
                /\ symbol \in DOMAIN mainKlinesMap.kv["binding"].kv
                /\ IsMap(mainKlinesMap.kv["binding"].kv[symbol])
             THEN mainKlinesMap.kv["binding"].kv[symbol].kv
             ELSE EmptyKV
        ks == {k \in DOMAIN b : ParseInt(k).ok}
    IN  [m \in {ParseInt(k).v : k \in ks} |->
            toInt64(b[CHOOSE k \in ks : ParseInt(k).v = m])]

MainIDs(mainKlineMap) ==
    SortByID({[ID |-> ParseInt(k).v] : k \in {k \in DOMAIN mainKlineMap.kv : ParseInt(k).ok}})

\* rtn_data payloads: a chart with its state, a main bar with or without the
\* binding of the second instrument, a bar of the second instrument
ChartDoc(symbols, r) ==
    Map([left_id |-> Num(1), right_id |-> Num(r),
         state |-> Map([ins_list |-> Str(Join(symbols)), duration |-> Num(60)])])

VChart(id, symbols, r) == List(<<DocAt(<<"charts", id>>, ChartDoc(symbols, r))>>)

BoundOf(m) == m + 1

BoundFrame(n) ==
    List(<<DocAt(<<"klines", SymA, Sprintf(60)>>,
                 Map([last_id |-> Num(n), data |-> Doc1(Sprintf(n), BarDoc(n)),
                      binding |-> Doc1(SymB, Doc1(Sprintf(n), Num(BoundOf(n))))]))>>)

VwPayloads(kind) ==
    {KFrame(SymA, n) : n \in 1..MaxBarId}
      \cup {VChart(ChartID, SymbolsOf(kind), r) : r \in 1..MaxBarId}
      \cup IF kind = "single"
           THEN {VChart(OtherChartID, SymbolsOf(kind), r) : r \in 1..MaxBarId}
           ELSE {BoundFrame(n) : n \in 1..MaxBarId}
                  \cup {KFrame(SymB, BoundOf(n)) : n \in 1..MaxBarId}

VwInit ==
    /\ data = SeriesSkeleton
    /\ epoch = 0
    /\ diffs = << >>
    /\ prevData = data
    /\ prevEpoch = 0
    /\ lastArr = << >>
    /\ lastInc = FALSE
    /\ lastOk = FALSE
    /\ merges = 0
    /\ DMIdle
    /\ WsIdle
    /\ TsIdle
    /\ TcIdle
    /\ SrIdle("single")
    /\ RlIdle
    /\ LateIdle
    /\ \E kind \in {"single", "multi"}, w \in 1..MaxW : VwIdle(kind, w)

vwRest == <<dmVars, wsVars, tsVars, tcVars, srVars, rlVars, lateVars>>

\* the quote channel's onMessage for rtn_data, until the view has been returned
VwFrame(payload) ==
    /\ ~vwCrashed
    /\ vwCall.pc # "done"
    /\ vwFrames < MaxVwFrames
    /\ vwFrames' = vwFrames + 1
    /\ MergeData(payload, TRUE, TRUE)
    /\ UNCHANGED <<merges, vwRest, vwKind, vwW, vwReq, vwCall, vwOwn, vwCrashed>>

\* the steps of the call that read a map of the store with no lock held
Unlocked == IF vwKind = "single" THEN {"start"} ELSE {"main", "slot"}

\* MergeData writes the map while the call ranges over it or indexes it: the
\* runtime may stop the process (concurrent map read and map write)
VwRace ==
    /\ ~vwCrashed
    /\ vwFrames < MaxVwFrames
    /\ vwCall.pc \in Unlocked
    /\ vwCrashed' = TRUE
    /\ UNCHANGED <<storeVars, histVars, vwRest, vwKind, vwW, vwReq, vwCall, vwOwn, vwFrames>>

vwOnly == <<storeVars, histVars, vwRest, vwKind, vwW, vwReq, vwFrames, vwCrashed>>

\* GetKlinesData, lines 411-460: the series and its bars in ascending order
VwRead ==
    /\ ~vwCrashed
    /\ vwKind = "single"
    /\ vwCall.pc = "start"
    /\ LET node == GetByPath(<<"klines", SymA, Sprintf(60)>>)
       IN  vwCall' = IF ~IsMap(node)
                 THEN [vwCall EXCEPT !.pc = "done", !.err = TRUE]
                 ELSE IF "data" \in DOMAIN node.kv /\ IsMap(node.kv["data"])
                 THEN [vwCall EXCEPT !.pc = "filter", !.all = AllKlines(node.kv["data"])]
                 ELSE [vwCall EXCEPT !.pc = "done"]
    /\ UNCHANGED <<vwOnly, vwOwn>>

\* the view width in force: the argument when positive, the default otherwise
WidthOf(w) == IF w > 0 THEN w ELSE DefaultViewWidth

\* GetKlinesData, lines 465-506, and the chart getSingleKlineData attaches
VwFilter ==
    /\ ~vwCrashed
    /\ vwCall.pc = "filter"
    /\ \E rightID \in RightIDs(SymA, 60) :
           vwCall' = [vwCall EXCEPT !.pc = "done", !.right = rightID,
                            !.out = Trim(FilterRight(vwCall.all, rightID), WidthOf(vwW))]
    /\ vwOwn' = ChartInfoOf(GetByPath(ChartPath))
    /\ UNCHANGED vwOnly

\* GetMultiKlinesData, lines 522-534: the chart of the subscription
VwChart ==
    /\ ~vwCrashed
    /\ vwKind = "multi"
    /\ vwCall.pc = "start"
    /\ vwCall' = [vwCall EXCEPT !.pc = "main", !.right = RightIDOf(GetByPath(ChartPath))]
    /\ vwOwn' = ChartInfoOf(GetByPath(ChartPath))
    /\ UNCHANGED vwOnly

\* GetMultiKlinesData, lines 549-635: the bindings and the retained main ids
VwMain ==
    /\ ~vwCrashed
    /\ vwCall.pc = "main"
    /\ LET node == GetByPath(<<"klines", SymA, Sprintf(60)>>)
       IN  vwCall' = IF IsMap(node) /\ "data" \in DOMAIN node.kv /\ IsMap(node.kv["data"])
                 THEN LET ids == Trim(FilterRight(MainIDs(node.kv["data"]), vwCall.right), vwW)
                      IN  [vwCall EXCEPT !.pc = IF ids = << >> THEN "done" ELSE "slot",
                                     !.bind = BindingOf(node, SymB),
                                     !.ids = ids, !.todo = ids]
                 ELSE [vwCall EXCEPT !.pc = "done"]
    /\ UNCHANGED <<vwOnly, vwOwn>>

\* the bar of a secondary instrument that a slot takes for a bound id
AlignedByMainID(mainID, mappedID) ==
    GetByPath(<<"klines", SymB, Sprintf(60), "data", Sprintf(mainID)>>)

AlignedKline(mainID, mappedID) ==
    GetByPath(<<"klines", SymB, Sprintf(60), "data", Sprintf(mappedID)>>)

\* GetMultiKlinesData, lines 638-671: one AlignedKlineSet
AlignedKlineSet(mainID, bind) ==
    LET mainData == GetByPath(<<"klines", SymA, Sprintf(60), "data", Sprintf(mainID)>>)
        hasMain == mainData # Null /\ KlineOf(mainData).ok
        other == IF mainID \in DOMAIN bind THEN AlignedKline(mainID, bind[mainID]) ELSE Null
        hasOther == mainID \in DOMAIN bind /\ other # Null /\ KlineOf(other).ok
    IN  [MainID |-> mainID,
         Klines |-> [s \in (IF hasMain THEN {SymA} ELSE {}) \cup (IF hasOther THEN {SymB} ELSE {}) |->
                        IF s = SymA
                        THEN [ID |-> mainID, Close |-> KlineOf(mainData).Close]
                        ELSE [ID |-> bind[mainID], Close |-> KlineOf(other).Close]]]

\* the ids of the bars the store holds for an instrument
StoredIDs(s) ==
    LET node == GetByPath(<<"klines", s, Sprintf(60), "data">>)
    IN  IF IsMap(node) THEN {ParseInt(k).v : k \in {k \in DOMAIN node.kv : ParseInt(k).ok}} ELSE {}

VwSlot ==
    /\ ~vwCrashed
    /\ vwCall.pc = "slot"
    /\ vwCall' = [vwCall EXCEPT !.pc = IF Len(vwCall.todo) = 1 THEN "done" ELSE "slot",
                        !.todo = Tail(vwCall.todo),
                        !.out = Append(vwCall.out, AlignedKlineSet(Head(vwCall.todo).ID, vwCall.bind)),
                        !.seen = Append(vwCall.seen, StoredIDs(SymB))]
    /\ UNCHANGED <<vwOnly, vwOwn>>

VwNext ==
    \/ \E payload \in VwPayloads(vwKind) : VwFrame(payload)
    \/ VwRace
    \/ VwRead
    \/ VwFilter
    \/ VwChart
    \/ VwMain
    \/ VwSlot

SpecView == VwInit /\ [][VwNext]_vars

----------------------------------------------------------------------------
(* Claims about the trade session *)

\* C10: the order InsertOrder seeds is never emitted: an order is emitted only
\* after an rtn_data frame of the server has contained it.
C10_AsStated == \A e \in emitted : e.confirmed

\* the callback of a later frame, which holds no order, emits the seeded order
C10_Witness ==
    /\ inserted = 1
    /\ confirmed = {}
    /\ pu = {}
    /\ emitted = {[id |-> "o1", n |-> 2, confirmed |-> FALSE]}
    /\ epoch = 2
    /\ getEpoch(GetByPath(OrdersPath \o <<"o1">>)) = 1

----------------------------------------------------------------------------
(* Claims about the quote channel *)

\* the frames the timer's goroutine put on the current connection before the
\* connection's first inbound frame was processed
ResentBeforeInbound(m) ==
    {i \in 1..firstInboundAt :
        /\ wire[i].by = "reconnect"
        /\ wire[i].aid = m.aid
        /\ wire[i].key = m.key}

\* the current connection was opened by a reconnect and has processed a frame
ReconnectedAndReceiving == connBy = "timer" /\ firstInboundAt >= 0

\* C1: after a reconnect the last recorded subscribe_quote is sent again
\* exactly once, before any inbound frame of the new connection is processed.
C1_AsStated ==
    (ReconnectedAndReceiving /\ hadSub # NoSub)
        => Cardinality(ResentBeforeInbound(hadSub)) = 1

C1_Witness ==
    /\ ReconnectedAndReceiving
    /\ hadSub = Sub("X")
    /\ subscribeQuote = Sub("X")

\* C2: after a reconnect every set_chart recorded with a non-zero view_width
\* is sent again exactly once, before any inbound frame of the new connection
\* is processed.
C2_AsStated ==
    ReconnectedAndReceiving
        => \A id \in hadCharts :
               Cardinality(ResentBeforeInbound(Chart(id, NoVW))) = 1

C2_Witness ==
    /\ ReconnectedAndReceiving
    /\ hadCharts = {"c1"}
    /\ charts = [id \in {"c1"} |-> Chart("c1", IntVW(10))]

\* the close handler is running, or the timer it scheduled is pending or running
Reconnecting ==
    \/ \E l \in loops : l.pc \in {"handleClose", "schedule"}
    \/ reconnectTask = "pending"
    \/ th["timer"].pc # "none"

\* C3: when a dial fails in Init while auto-reconnect is enabled, the close
\* handler runs and a reconnect is scheduled or onDeath is fired: the channel
\* never stays disconnected with no reconnect pending and no death declared.
C3_AsStated == (initFailed /\ reconnect) => (Reconnecting \/ dead)

C3_Witness ==
    /\ initFailed /\ reconnect
    /\ reconnectTimes = 1
    /\ status = "Closed" /\ conn # 0

\* C4: once Close() has returned no reconnect happens: no reconnect timer is
\* pending, onReconnect is not fired, and no reconnect opens the channel again.
C4_AsStated ==
    closeReturned =>
        /\ reconnectTask # "pending"
        /\ ~lateReconnect
        /\ ~(status = "Open" /\ connBy = "timer")

C4_Witness == closeReturned /\ reconnectTask = "stopped"

----------------------------------------------------------------------------
(* Claims about the store *)

Keys == Tops \cup Syms \cup Fields \cup {"_epoch"}

\* the paths of at most three keys
Paths == {<< >>} \cup {<<a>> : a \in Keys}
           \cup {<<a, b>> : a \in Keys, b \in Keys}
           \cup {<<a, b, c>> : a \in Keys, b \in Keys, c \in Keys}

\* the value a root holds at a path (Null where the path breaks)
NodeAt(d, path) == getByPathLoop(d, path, 1)

\* the last call was an epoch-increasing merge that went through
AfterIncreasingMerge == lastInc /\ lastOk

\* some merged item of the last source holds a mapping at the path
\* (at the empty path: some item was not empty, so the root was merged into)
OnSourcePath(path) ==
    \E i \in 1..Len(lastArr) :
        /\ DOMAIN lastArr[i] # {}
        /\ IsMap(NodeAt(lastArr[i], path))

\* the mapping that mergeObject hands to mergeQuotes: held under the key
\* "quotes" by a mapping that is not itself such a mapping
RECURSIVE QuotesNode(_)
QuotesNode(path) ==
    /\ path # << >>
    /\ path[Len(path)] = "quotes"
    /\ ~QuotesNode(SubSeq(path, 1, Len(path) - 1))

StampedNow(v) == getEpochOk(v) /\ getEpoch(v) = epoch

\* the _epoch entry of a mapping, Null when it has none
EpochEntry(v) == IF "_epoch" \in DOMAIN v.kv THEN v.kv["_epoch"] ELSE Null

KeepsEpoch(path) ==
    /\ IsMap(NodeAt(prevData, path))
    /\ EpochEntry(NodeAt(data, path)) = EpochEntry(NodeAt(prevData, path))

\* C5 as stated: after an epoch-increasing merge to epoch E, the root and
\* every mapping on a path present in the source carry _epoch = E, and every
\* other mapping keeps the _epoch it had.
C5_AsStated ==
    AfterIncreasingMerge =>
        \A path \in Paths :
            IsMap(NodeAt(data, path)) =>
                IF path = << >> \/ OnSourcePath(path)
                THEN StampedNow(NodeAt(data, path))
                ELSE KeepsEpoch(path)

\* C5 amended: after an epoch-increasing merge to epoch E, every mapping on
\* a path present in a non-empty item of the source (the root included)
\* carries _epoch = E, except a mapping handed to mergeQuotes, which is
\* never stamped with E; every mapping on no such path keeps its _epoch.
C5_Stamps ==
    AfterIncreasingMerge =>
        \A path \in Paths :
            IsMap(NodeAt(data, path)) =>
                IF OnSourcePath(path)
                THEN StampedNow(NodeAt(data, path)) <=> ~QuotesNode(path)
                ELSE KeepsEpoch(path)

\* C5 witness: a second epoch-increasing merge stamped one instrument and
\* left a sibling mapping with the stamp of the first
C5_Witness ==
    /\ AfterIncreasingMerge
    /\ epoch = 2
    /\ \E p \in Paths, q \in Paths :
          /\ Len(p) = 2 /\ Len(q) = 2
          /\ OnSourcePath(p) /\ StampedNow(NodeAt(data, p))
          /\ ~OnSourcePath(q) /\ IsMap(NodeAt(data, q))
          /\ getEpochOk(NodeAt(data, q)) /\ getEpoch(NodeAt(data, q)) = 1

\* the value reached at the first i keys of the path is a mapping stamped
\* with the current epoch
PrefixStamped(path, i) ==
    LET pre == SubSeq(path, 1, i)
    IN  /\ \A j \in 1..(i - 1) : IsMap(NodeAt(data, SubSeq(path, 1, j)))
        /\ StampedNow(NodeAt(data, pre))

\* C6: right after an epoch-increasing merge, IsChanging(P) is true exactly
\* when the value reached at some non-empty prefix of P is a mapping whose
\* _epoch is the current epoch.
C6_IsChanging ==
    AfterIncreasingMerge =>
        \A path \in Paths :
            IsChanging(path) <=> \E i \in 1..Len(path) : PrefixStamped(path, i)

\* C6 witness: after an epoch-increasing merge one instrument is changing
\* and its sibling, an older mapping, is not
C6_Witness ==
    /\ AfterIncreasingMerge
    /\ \E p \in Paths, q \in Paths :
          /\ Len(p) = 2 /\ Len(q) = 2 /\ p[1] = q[1]
          /\ IsChanging(p)
          /\ ~IsChanging(q) /\ getEpochOk(NodeAt(data, q))

----------------------------------------------------------------------------
(* Claims about the callbacks, the lock and the epoch *)

\* a caller is inside the locked section of MergeData
InSection(c) == call[c].pc \in {"merge", "unlock"}

\* a goroutine's spawning call is still inside its locked section
SpawnerInSection(g) == InSection(g.by) /\ call[g.by].n = g.n

\* C7 as stated: every registered callback is invoked once per MergeData call
\* with epochIncrease=true, whatever the source, and never for epochIncrease=false.
C7_AsStated ==
    (\A c \in Callers : call[c].pc # "merge")
        => \A k \in 1..MaxCallbacks : invoked[k] = dueAll[k]

\* C7, amended: every registered callback is invoked once, in a goroutine of
\* its own, per MergeData call with epochIncrease=true that merges at least one
\* non-empty item, and not at all for a call with epochIncrease=false or one
\* whose source is empty or cannot be normalised.
C7_Callbacks ==
    /\ \A k \in 1..MaxCallbacks : invoked[k] = dueMerged[k]
    /\ \A k \in 1..MaxCallbacks : invoked[k] <= dueAll[k]
    /\ \A g \in gos : g.cb \in 1..nCallbacks

C7_Witness ==
    /\ nCallbacks = 1
    /\ invoked[1] = 1
    /\ dueAll[1] = 2
    /\ \E g \in gos : g.cb = 1 /\ g.pc = "started"
    /\ \A c \in Callers : call[c].pc = "idle"

Locks(c) == call[c].pc = "lock" /\ call'[c].pc # "lock"

\* C9 as stated: the epoch never decreases; every MergeData call with
\* epochIncrease=true raises it by one before any node is modified, a call with
\* epochIncrease=false leaves it unchanged.
C9_AsStated ==
    [][ /\ epoch' >= epoch
        /\ \A c \in Callers :
               Locks(c) => /\ epoch' = epoch + (IF call[c].inc THEN 1 ELSE 0)
                           /\ data' = data
        /\ epoch' # epoch => \E c \in Callers : Locks(c)
        /\ data' # data => epoch' = epoch ]_vars

\* C9, amended: the epoch never decreases; every MergeData call with
\* epochIncrease=true whose source normalises to a list of mappings raises it
\* by one before any node is modified; a call with epochIncrease=false, or with
\* a source that cannot be normalised, leaves it unchanged.
C9_Epoch ==
    [][ /\ epoch' >= epoch
        /\ \A c \in Callers :
               Locks(c) =>
                   /\ epoch' = epoch + (IF call[c].inc /\ call[c].ok THEN 1 ELSE 0)
                   /\ data' = data
        /\ epoch' # epoch => \E c \in Callers : Locks(c)
        /\ data' # data =>
               /\ epoch' = epoch
               /\ \E c \in Callers :
                      /\ call[c].pc = "merge"
                      /\ epoch = call[c].e0 + (IF call[c].inc THEN 1 ELSE 0) ]_vars

C9_Witness ==
    /\ epoch = 2
    /\ \E c \in Callers :
           call[c].pc = "merge" /\ call[c].inc /\ call[c].e0 = 1 /\ call[c].rest = << >>
    /\ \E c \in Callers : call[c].pc = "idle"


----------------------------------------------------------------------------
(* Claims about Connect *)

\* C11: Connect is idempotent: over any number of calls of Connect, the
\* automatic one included, the session dials at most one connection and
\* sends at most one req_login.
C11_AsStated == dials <= 1 /\ tcLogins <= 1

\* Connect was called again before the login reply arrived
C11_Witness ==
    /\ tcConnects = 2
    /\ ~loggedIn
    /\ dials = 2
    /\ tcLogins = 2
    /\ conn = 2

----------------------------------------------------------------------------
(* Claims about series subscriptions *)

\* the user has called Start() on the subscription: SeriesSubscription has no
\* such method, NewSeriesSubscription starts watch() itself
StartCalled == FALSE

Processed == {updates[i] : i \in 1..Len(updates)}

\* C12: a newly created SeriesSubscription invokes none of its callbacks
\* (OnUpdate, OnNewBar, OnBarUpdate) until Start() has been called on it.
C12_AsStated == \A u \in Processed : u.invoked # {} => StartCalled

\* an update of a subscription nobody started has invoked OnUpdate
C12_Witness ==
    /\ ~StartCalled
    /\ Len(updates) = 1
    /\ "onUpdate" \in updates[1].invoked

\* the instruments whose last_id the update found above the tracked id
Due(u) == {s \in DOMAIN u.cur : u.cur[s] > u.tracked[s]}

\* C13: for each processed update, HasNewBar is true exactly when some
\* subscribed instrument's last_id is greater than the id tracked for it
\* (initially -1), the first data included, and NewBarIDs then holds the new
\* last_id of each such instrument.
C13_AsStated ==
    \A u \in Processed :
        /\ u.HasNewBar = (Due(u) # {})
        /\ u.NewBarIDs = {<<s, u.cur[s]>> : s \in Due(u)}

\* the first data of a subscription was processed and not reported as a new bar
C13_Witness ==
    /\ Len(updates) = 1
    /\ updates[1].tracked[SymA] = -1
    /\ updates[1].cur[SymA] = 1
    /\ ~updates[1].HasNewBar
    /\ updates[1].NewBarIDs = {}

\* C14: HasBarUpdate is true for an update exactly when HasNewBar is false and
\* the subscribed series' own subtree (instrument and duration for K-lines,
\* the tick series for ticks) was modified by the latest merge.
C14_AsStated ==
    \A u \in Processed : u.HasBarUpdate = (~u.HasNewBar /\ u.own)

\* a tick subscription processed an update of its tick series, without a new
\* tick, and did not report a bar update
C14_Witness ==
    /\ srKind = "tick"
    /\ Len(updates) = 1
    /\ updates[1].own
    /\ ~updates[1].HasNewBar
    /\ ~updates[1].HasBarUpdate

\* the updates processed while the subscription's chart reported ready
WhileReady == {i \in 1..Len(updates) : updates[i].ready}

\* C15: over the lifetime of a subscription, HasChartSync is true in exactly
\* one update: the first one processed while the chart reports ready == true.
C15_AsStated ==
    \A i \in 1..Len(updates) :
        updates[i].HasChartSync = (i \in WhileReady /\ \A j \in WhileReady : i <= j)

\* a tick subscription processed an update with its chart ready and did not
\* report the chart sync
C15_Witness ==
    /\ srKind = "tick"
    /\ Len(updates) = 1
    /\ updates[1].ready
    /\ ~updates[1].HasChartSync

\* C16: the trackers are read and updated only under the subscription's lock,
\* so when updates are processed concurrently each new bar id is reported
\* through HasNewBar exactly once.
C16_AsStated ==
    \A i, j \in 1..Len(updates) :
        i # j => updates[i].NewBarIDs \cap updates[j].NewBarIDs = {}

\* two updates processed concurrently have both reported the new bar 2
C16_Witness ==
    /\ srKind = "single"
    /\ ~srCrashed
    /\ Len(updates) = 3
    /\ updates[2].NewBarIDs = {<<SymA, 2>>}
    /\ updates[3].NewBarIDs = {<<SymA, 2>>}
----------------------------------------------------------------------------
(* Claims about views *)

\* the view has been returned to the subscription
Returned == ~vwCrashed /\ vwCall.pc = "done" /\ ~vwCall.err

\* the ids the claims speak of: the bars of a single view, the main
\* instrument's bars of a multi view
ViewIDs ==
    IF vwKind = "single"
    THEN {vwCall.out[i].ID : i \in 1..Len(vwCall.out)}
    ELSE {vwCall.out[i].MainID : i \in 1..Len(vwCall.out)}

\* C17: every bar of a view returned to a K-line subscription has an id less
\* than or equal to the right_id the subscription's own chart holds when the
\* view is built
C17_AsStated ==
    (Returned /\ vwOwn.ok) => \A id \in ViewIDs : id <= vwOwn.RightID

\* C17: a view is returned with a bar in it while the subscription's chart
\* and the chart of another subscription on the instrument both exist
C17_Witness ==
    /\ Returned
    /\ vwKind = "single"
    /\ vwOwn.ok
    /\ ViewIDs # {}
    /\ GetByPath(<<"charts", OtherChartID>>) # Null

\* C18: a view returned for a subscription created with view width W holds
\* at most min(W, limit) bars, the limit being that of set_chart
C18_AsStated ==
    Returned => Len(vwCall.out) <= (IF vwW < ViewWidthLimit THEN vwW ELSE ViewWidthLimit)

\* C18: a view is returned to a subscription whose view width is above the
\* limit and whose set_chart request was cut down to the limit
C18_Witness ==
    /\ Returned
    /\ vwW > ViewWidthLimit
    /\ vwReq = ViewWidthLimit
    /\ vwCall.out # << >>

\* the slots of a multi-instrument view that has been returned
Slots == IF Returned /\ vwKind = "multi" THEN 1..Len(vwCall.out) ELSE {}

\* one slot per retained main id, in ascending order of id
OneSlotPerMainID ==
    Slots # {} =>
        /\ Len(vwCall.out) = Len(vwCall.ids)
        /\ \A i \in Slots : vwCall.out[i].MainID = vwCall.ids[i].ID
        /\ \A i, j \in Slots : i < j => vwCall.out[i].MainID < vwCall.out[j].MainID

\* C19, as stated: one slot per retained main id in ascending order, and the
\* second instrument has a bar in the slot of m exactly when binding[symbol][m]
\* exists, the bar being the one whose id is the binding
C19_AsStated ==
    /\ OneSlotPerMainID
    /\ \A i \in Slots :
          LET set == vwCall.out[i]
          IN  /\ SymB \in DOMAIN set.Klines <=> set.MainID \in DOMAIN vwCall.bind
              /\ SymB \in DOMAIN set.Klines => set.Klines[SymB].ID = vwCall.bind[set.MainID]

\* C19, amended: one slot per retained main id in ascending order, and the
\* second instrument has a bar in the slot of m exactly when binding[symbol][m]
\* existed when the main ids were collected and the store held a bar of that
\* id for the second instrument when the slot was built; the bar is then the
\* stored one whose id is the binding
C19_Amended ==
    /\ OneSlotPerMainID
    /\ \A i \in Slots :
          LET set == vwCall.out[i]
          IN  /\ SymB \in DOMAIN set.Klines <=>
                    /\ set.MainID \in DOMAIN vwCall.bind
                    /\ vwCall.bind[set.MainID] \in vwCall.seen[i]
              /\ SymB \in DOMAIN set.Klines =>
                    /\ set.Klines[SymB].ID = vwCall.bind[set.MainID]
                    /\ set.Klines[SymB].Close = vwCall.bind[set.MainID]
              /\ SymA \in DOMAIN set.Klines =>
                    /\ set.Klines[SymA].ID = set.MainID
                    /\ set.Klines[SymA].Close = set.MainID

\* C19: a view of two slots is returned, the first with the bound bar of the
\* second instrument and the other without binding
C19_Witness ==
    /\ Slots = {1, 2}
    /\ SymB \in DOMAIN vwCall.out[1].Klines
    /\ SymB \notin DOMAIN vwCall.out[2].Klines
    /\ vwCall.out[2].MainID \notin DOMAIN vwCall.bind

\* C19: a slot is built for a main id whose binding exists while the store
\* does not hold the bound bar
C19_Unstored ==
    \E i \in Slots :
        /\ vwCall.out[i].MainID \in DOMAIN vwCall.bind
        /\ vwCall.bind[vwCall.out[i].MainID] \notin vwCall.seen[i]

----------------------------------------------------------------------------
(* Claims about the receive loop *)

\* the frames receiveLoop has read and is no longer working on
Finished ==
    {n \in DOMAIN rlLog :
        \A l \in loops : l.pc \in {"onMessage", "peek"} => rlCur[l.id] # n}

\* the peek_message frames of receiveLoop that are on the connection or queued
RECURSIVE PeeksIn(_)
PeeksIn(fs) ==
    IF fs = << >> THEN 0
    ELSE (IF Head(fs).aid = "peek_message" /\ Head(fs).by = "recv" THEN 1 ELSE 0)
           + PeeksIn(Tail(fs))

\* C20, as stated: one peek_message frame goes out for each inbound frame
\* that decodes, after onMessage has processed it, and none for a frame that
\* fails to decode
C20_AsStated ==
    \A n \in DOMAIN rlLog :
        /\ ~rlLog[n].ok => rlLog[n].peeks = 0
        /\ rlLog[n].peeks = 1 => rlLog[n].handled
        /\ (rlLog[n].ok /\ n \in Finished) => rlLog[n].peeks = 1 /\ rlLog[n].fate = "wire"

\* C20, amended: receiveLoop hands a peek_message frame to Send exactly once
\* for each inbound frame that decodes, after onMessage has processed it, and
\* never for a frame that fails to decode; no such frame reaches a connection
\* or the queue more than once
C20_Amended ==
    /\ \A n \in DOMAIN rlLog :
          /\ ~rlLog[n].ok => rlLog[n].peeks = 0 /\ ~rlLog[n].handled
          /\ rlLog[n].peeks <= 1
          /\ rlLog[n].peeks = 1 => rlLog[n].ok /\ rlLog[n].handled
          /\ (rlLog[n].ok /\ n \in Finished) => rlLog[n].peeks = 1
    /\ PeeksIn(wire) + PeeksIn(queue) <= Cardinality({n \in DOMAIN rlLog : rlLog[n].peeks = 1})

\* C20: one frame failed to decode and another was decoded, processed by
\* onMessage and followed by its peek_message on the connection
C20_Witness ==
    \E n, k \in Finished :
        /\ ~rlLog[n].ok
        /\ rlLog[k].ok /\ rlLog[k].handled /\ rlLog[k].peeks = 1 /\ rlLog[k].fate = "wire"
        /\ PeeksIn(wire) = 1

\* C20: the channel was closed or dropped while onMessage processed a frame
C20_Unsent ==
    \E n \in Finished : rlLog[n].ok /\ rlLog[n].peeks = 1 /\ rlLog[n].fate # "wire"

\* the step reads a frame that fails to decode
BadFrameRead == Len(rlLog') = Len(rlLog) + 1 /\ ~rlLog'[Len(rlLog')].ok

\* C21: an inbound frame that fails JSON decoding is dropped: the step leaves
\* the connection, the status, the receive loops, the document, the queue and
\* the frames written as they were, so the loop goes on to read the frames
\* that follow
C21_Dropped ==
    [][BadFrameRead =>
          /\ status' = status /\ conn' = conn /\ connAlive' = connAlive
          /\ ctxDone' = ctxDone /\ loops' = loops
          /\ data' = data /\ epoch' = epoch
          /\ queue' = queue /\ wire' = wire]_vars

\* C21: the first frame of the connection failed to decode, and the second
\* one was decoded, processed by onMessage and answered with peek_message on
\* the same connection
C21_Witness ==
    /\ Len(rlLog) = 2
    /\ ~rlLog[1].ok
    /\ rlLog[2].ok /\ rlLog[2].handled /\ rlLog[2].fate = "wire"
    /\ dials = 1
    /\ epoch = 1


\* where a frame stands among the frames written to the connection; 0: nowhere
WrittenAt(f) ==
    IF \E k \in 1..Len(flWritten) : flWritten[k] = f
    THEN CHOOSE k \in 1..Len(flWritten) : flWritten[k] = f
    ELSE 0

\* C22: a frame handed to Send while the transport was not Open is written to
\* the connection before every frame handed to Send after it.
C22_AsStated ==
    \A i, j \in 1..Len(flLog) :
        (i < j /\ ~flLog[i].ready /\ WrittenAt(flLog[i].f) > 0
               /\ WrittenAt(flLog[j].f) > 0)
            => WrittenAt(flLog[i].f) < WrittenAt(flLog[j].f)

\* C22, the case: two frames queued while the transport was not Open, both
\* written by the flush of Init in the order of their submission
C22_Witness ==
    /\ Len(flLog) = 2
    /\ ~flLog[1].ready /\ ~flLog[2].ready
    /\ flWritten = <<flLog[1].f, flLog[2].f>>
    /\ wire = flWritten
    /\ queue = << >>

\* C22, the other way the code leaves the claim: a frame queued while the
\* transport was not Open is never written although a later one is
C22_Lost ==
    \A i, j \in 1..Len(flLog) :
        (i < j /\ ~flLog[i].ready /\ WrittenAt(flLog[j].f) > 0 /\ flSend = NoSend)
            => (WrittenAt(flLog[i].f) > 0 \/ \E k \in 1..Len(queue) : queue[k] = flLog[i].f)

\* the merge of source touches pathArray: source holds a value at the path, or
\* puts something that is not a mapping in the place of one of its ancestors
RECURSIVE TouchesFrom(_, _, _)
TouchesFrom(source, pathArray, i) ==
    /\ pathArray[i] \in DOMAIN source
    /\ \/ i = Len(pathArray)
       \/ ~IsMap(source[pathArray[i]])
       \/ TouchesFrom(source[pathArray[i]].kv, pathArray, i + 1)

Touches(n, ch) == TouchesFrom(wtSrc[n].kv, wtChan[ch].path, 1)

\* C23: a watcher on path P receives no update for an epoch-increasing merge
\* that does not touch P: an update sent by the notifyWatchers of merge n
\* answers a merge that touches P, merge n or one applied since.
C23_AsStated ==
    \A e \in wtLog :
        e.kind = "sent" => \E k \in e.n..e.at : Touches(k, e.ch)

\* C23, the case: a merge of a top-level flag was notified to a registered
\* watcher on klines.au, whose value exists, and nothing was sent
C23_Witness ==
    \E e \in wtLog :
        /\ e.kind = "unchanged"
        /\ wtChan[e.ch].path = PathAu
        /\ ~Touches(e.n, e.ch)
        /\ \A c \in Callers : wtCall[c].pc = "idle"

\* C24: a watcher registered on path P before an epoch-increasing merge that
\* touches P receives, for that merge, an update carrying the value now stored
\* at P, provided that value is non-null and the watcher's buffer is not full.
C24_AsStated ==
    \A e \in wtLog :
        (e.pre /\ Touches(e.n, e.ch) /\ e.kind \notin {"absent", "nil", "full"})
            => e.kind = "sent"

\* C24, the case: a watcher registered before a merge of klines.au holds the
\* update of that merge, which carries the mapping now stored at klines.au
C24_Witness ==
    \E e \in wtLog : \E ch \in DOMAIN wtChan :
        /\ e.kind = "sent" /\ e.pre /\ e.ch = ch /\ e.n = 1
        /\ Touches(e.n, ch)
        /\ wtChan[ch].path = PathAu
        /\ Len(wtChan[ch].buf) = 1
        /\ wtChan[ch].buf[1].n = 1
        /\ wtChan[ch].buf[1].sent = GetByPath(PathAu)
        /\ merges = 1


\* the channels UnWatch has taken out of the registry and finished with
Unwatched ==
    {ch \in DOMAIN wtChan :
        /\ \A p \in DOMAIN wtReg : wtReg[p] # ch
        /\ ~(wtUn.pc = "close" /\ wtUn.ch = ch)}

\* C25: UnWatch(path) removes the watcher and closes its channel, and no merge
\* running concurrently with or after the UnWatch ever sends on that closed
\* channel: no panic, and the buffer of a closed channel never grows.
C25_UnWatch ==
    /\ [](/\ ~wtPanic
          /\ \A ch \in Unwatched : wtChan[ch].closed
          /\ \A p \in DOMAIN wtReg : ~wtChan[wtReg[p]].closed)
    /\ [][\A ch \in DOMAIN wtChan :
             wtChan[ch].closed =>
                 Len(wtChan'[ch].buf) <= Len(wtChan[ch].buf)]_vars

\* C25, the case: the watcher on klines.au got the update of the first merge
\* and was unwatched; a second merge of klines.au was notified after that and
\* reached nobody
C25_Witness ==
    /\ merges = 2
    /\ Len(wtChan) = 1
    /\ wtChan[1].closed /\ wtChan[1].path = PathAu
    /\ wtReg = [p \in {} |-> 0]
    /\ \E e \in wtLog : e.n = 1 /\ e.ch = 1 /\ e.kind = "sent"
    /\ \A e \in wtLog : e.n = 1
    /\ TouchesFrom(wtSrc[2].kv, PathAu, 1)
    /\ epoch = 2
    /\ \A c \in Callers : wtCall[c].pc = "idle"
    /\ ~wtPanic

\* C26: when the context passed to Watch is cancelled, the watcher is removed
\* from the registry and its channel is closed.
C26_AsStated ==
    wtCtx.done ~> (/\ DOMAIN wtReg = {}
                   /\ \A ch \in DOMAIN wtChan : wtChan[ch].closed)

\* C26, the case: the context of the watcher on klines.au was cancelled, and a
\* merge made after that was notified to it
C26_Witness ==
    /\ wtCtx.done
    /\ PathAu \in DOMAIN wtReg
    /\ ~wtChan[wtReg[PathAu]].closed
    /\ \E e \in wtLog : e.ch = wtReg[PathAu] /\ e.n > wtCtx.at
    /\ \A c \in Callers : wtCall[c].pc = "idle"

\* C27: a value delivered to a watcher is a snapshot: merges applied after the
\* delivery do not change the value the consumer received.
C27_AsStated ==
    \A k \in 1..Len(wtGot) : wtGot[k].v = wtGot[k].sent

\* C27, the case: the consumer took the update of the first merge, and a second
\* merge, of the sibling klines.ag, left what it holds as it was
C27_Witness ==
    /\ Len(wtGot) = 1
    /\ wtGot[1].n = 1 /\ wtGot[1].path = PathAu
    /\ merges = 2
    /\ wtSrc[2] = Doc2("klines", "ag", Bar(1))
    /\ wtGot[1].v = wtGot[1].sent
    /\ wtGot[1].v = GetByPath(PathAu)

\* the values of channel ch that came from merge n, buffered or taken
From(n, ch) ==
    {k \in 1..Len(wtChan[ch].buf) : wtChan[ch].buf[k].n = n}
        \cup {k \in 1..Len(wtGot) : wtGot[k].n = n /\ wtGot[k].ch = ch}

----------------------------------------------------------------------------
(* Claims about the watchers and the subscriber channels *)

\* the account now in the document, as the subscriber would be sent it
CurrentAccount == ToAccount(GetByPath(AccountPath))

\* every update has been processed and the subscriber has taken all there was
Drained == acPending = 0 /\ acCh = << >> /\ acGot # << >>

\* C29: after updates were dropped because the subscriber's channel was full,
\* the subscriber still ends up with the latest state: once it has taken all
\* that was delivered, the last account it holds is the document's.
C29_AsStated ==
    (Drained /\ acDropped > 0) => acGot[Len(acGot)] = CurrentAccount

\* C29, the case: an update was dropped, a later one was delivered, and the
\* subscriber, having taken everything, holds the account of the document
C29_Witness ==
    /\ Drained
    /\ acDropped > 0
    /\ acGot[Len(acGot)] = CurrentAccount
    /\ merges = MaxAcMerges

\* C30: after a set_chart with view_width 0 for a chart_id has been sent (as
\* SeriesSubscription.Close does) the channel holds no recorded entry for that
\* chart_id; after one with a non-zero view_width the recorded entry is exactly
\* that latest request.
C30_AsStated ==
    \A id \in DOMAIN chLast :
        IF chLast[id].vw.n = 0
        THEN id \notin DOMAIN charts
        ELSE id \in DOMAIN charts /\ charts[id] = chLast[id]

\* C30, the case: chart c1 was recorded and then cancelled with a float64 0,
\* chart c2 was recorded; c1 has no entry and c2's is its request
C30_Witness ==
    /\ DOMAIN chLast = {"c1", "c2"}
    /\ chLast["c1"] = Chart("c1", FloatVW(0))
    /\ chLast["c2"] = Chart("c2", IntVW(10))
    /\ charts = [id \in {"c2"} |-> Chart("c2", IntVW(10))]

\* a string, number or boolean stored at the path
ScalarAt(d, path) == NodeAt(d, path).t \in {"num", "str", "bool"}

\* a mapping holds the source's content: every entry of the source that is
\* a string, a number or a boolean is an entry of the mapping
HoldsContent(v, source) ==
    /\ IsMap(v)
    /\ \A k \in DOMAIN source.kv :
           source.kv[k].t \in {"num", "bool"}
               => (k \in DOMAIN v.kv /\ v.kv[k] = source.kv[k])

\* the last call merged one item that brings a mapping for a key whose value
\* was a scalar
MappingOverScalar(path) ==
    /\ lastOk
    /\ Len(lastArr) = 1
    /\ path # << >>
    /\ ScalarAt(prevData, path)
    /\ IsMap(NodeAt(lastArr[1], path))

\* C31: when a merge brings a mapping for a key whose current value is a
\* scalar, the scalar is replaced by a mapping holding the source's content.
C31_AsStated ==
    \A path \in Paths :
        MappingOverScalar(path)
            => HoldsContent(NodeAt(data, path), NodeAt(lastArr[1], path))

\* C31, the case: klines.au held the number 1 and a merge brought the bar
\* {p: 2} for it
C31_Witness ==
    /\ MappingOverScalar(<<"klines", "au">>)
    /\ NodeAt(prevData, <<"klines", "au">>) = Num(1)
    /\ NodeAt(lastArr[1], <<"klines", "au">>) = Bar(2)
    /\ merges = 2

----------------------------------------------------------------------------
(* Claims about the client's quote subscription *)

RECURSIVE LastSubscribe(_)
\* the subscribe_quote handed to a connection last, NoSub if there was none
LastSubscribe(fs) ==
    IF fs = << >> THEN NoSub
    ELSE IF fs[Len(fs)].aid = "subscribe_quote" THEN fs[Len(fs)]
    ELSE LastSubscribe(SubSeq(fs, 1, Len(fs) - 1))

\* the connection is up, no Init is under way and nothing waits in the queue
QsAtRest ==
    /\ IsReady
    /\ connAlive
    /\ \A t \in DOMAIN th : th[t].pc = "none"
    /\ queue = << >>

\* C32: a Client keeps a single QuoteSubscription, and after any sequence of
\* SubscribeQuote/AddSymbols/RemoveSymbols calls the subscribe_quote most
\* recently forwarded to the server lists exactly the subscription's current
\* symbol set.
C32_AsStated ==
    (QsAtRest /\ LastSubscribe(flWritten) # NoSub)
        => Listed(LastSubscribe(flWritten).key) = quoteSubscription.symbols

\* C32, the case: SubscribeQuote("a") and then AddSymbols("b") on a connection
\* that stays up: the second subscribe_quote lists a and b
C32_Witness ==
    /\ QsAtRest
    /\ dials = 1
    /\ connAlive
    /\ quoteSubscription.symbols = {"a", "b"}
    /\ Len(flWritten) = 2
    /\ Listed(flWritten[1].key) = {"a"}
    /\ Listed(flWritten[2].key) = {"a", "b"}

\* C32, what the code keeps: the request the channel has recorded lists the
\* current symbol set
C32_Recorded ==
    subscribeQuote # NoSub
        => Listed(subscribeQuote.key) = quoteSubscription.symbols

----------------------------------------------------------------------------
(* Claims about the login *)

\* the document reports a non-empty trade/<user>/session/trading_day
TradingDayStored ==
    LET session == NodeAt(data, <<"trade", User, "session">>)
    IN  /\ IsMap(session)
        /\ "trading_day" \in DOMAIN session.kv
        /\ session.kv["trading_day"] \notin {Null, Str("")}

\* C33: IsReady() is false until the session's document reports a non-empty
\* trade/<user>/session/trading_day, and after a merge has stored one
\* IsReady() becomes true.
C33_AsStated ==
    /\ [](TsIsReady => TradingDayStored)
    /\ (TradingDayStored ~> TsIsReady)

\* C33, the first half: IsReady() is false as long as the document reports
\* no trading day
C33_FalseUntil == TsIsReady => TradingDayStored

\* C33, the case: the login frame was merged with the callback registered,
\* processUpdate has run for it and IsReady() is true
C33_Witness ==
    /\ TsIsReady
    /\ TradingDayStored
    /\ serverMerges = 1
    /\ nCallbacks = 1
    /\ pu = {}

----------------------------------------------------------------------------
(* Claims about the event emitter *)

\* C34: a handler registered with EventEmitter.Once is invoked for at most
\* one emission of its event: after it has run, Off has removed it and later
\* Emit calls do not invoke it.
C34_AsStated ==
    /\ Cardinality(emInvoked[OnceHandler]) <= 1
    /\ (emInvoked[OnceHandler] # {} => OnceHandler \notin Registered)

\* C34, the case: the handler registered with Once has run for an emission,
\* and Emit was called again after that run
C34_Witness ==
    /\ OnceHandler \in Registered
    /\ emInvoked[OnceHandler] = {1}
    /\ emEmits = 2
    /\ \E g \in emGos : g.n = 2

----------------------------------------------------------------------------
(* Claims about the virtual trader *)

\* C35: after Close() of a TradeSession, QuoteSubscription or VirtualTrader
\* has closed its delivery channels, no emitter ever attempts a send on them
\* (no send-on-closed-channel panic), under any interleaving with in-flight
\* data callbacks or with operations invoked after Close.
C35_AsStated == ~vtPanic

\* C35, the case: Close() has closed the channels of a VirtualTrader and an
\* order is placed afterwards, whose emitOrder goroutine has yet to run
C35_Witness ==
    /\ vtClosed
    /\ ~vtPanic
    /\ Len(vtOrders) = 1
    /\ vtCalls = 2
    /\ vtGos = {EmitGo("emitOrder")}

VolumeInRange(order) == 0 <= order.VolumeLeft /\ order.VolumeLeft <= order.VolumeOrign

FinishedAtZero(order) == order.VolumeLeft = 0 => order.Status = "FINISHED"

\* a FINISHED order is the same after the step
FinishedStays ==
    \A id \in OrderIdsOf(vtOrders) :
        vtOrders[id].Status = "FINISHED" => vtOrders'[id] = vtOrders[id]

\* C40: for every VirtualTrader order, 0 <= VolumeLeft <= VolumeOrign always
\* holds, the order is FINISHED once VolumeLeft reaches 0 or it is cancelled,
\* and a FINISHED order is never filled, cancelled or made ALIVE again,
\* including when UpdateMarketPrice triggers fills concurrently.
C40_AsStated ==
    /\ [](\A id \in OrderIdsOf(vtOrders) :
             VolumeInRange(vtOrders[id]) /\ FinishedAtZero(vtOrders[id]))
    /\ [][FinishedStays]_vars

\* C40, the case: an order of volume 2 was matched by UpdateMarketPrice and
\* then finished by the user (filled or cancelled); the goroutine of
\* UpdateMarketPrice has yet to call SimulateTrade for the FINISHED order
C40_Witness ==
    /\ Len(vtOrders) = 1
    /\ vtOrders[1] = [VolumeOrign |-> 2, VolumeLeft |-> 0, Status |-> "FINISHED"]
    /\ [kind |-> "fill", id |-> 1, vol |-> 2] \in vtGos

\* C40, what the code keeps: VolumeLeft is never negative, an order whose
\* VolumeLeft is 0 is FINISHED, and a FINISHED order is never changed
C40_Kept ==
    /\ [](\A id \in OrderIdsOf(vtOrders) :
             0 <= vtOrders[id].VolumeLeft /\ FinishedAtZero(vtOrders[id]))
    /\ [][FinishedStays]_vars

----------------------------------------------------------------------------
(* Claims about the quote subscription's callback *)

\* the subscribed symbols whose quote merge n wrote
QcTouched(n) == {s \in QcSymbols : IsMap(NodeAt(qcSrc[n].kv, <<"quotes", s>>))}

\* C36: when epoch-increasing merges arrive back-to-back, the data callback
\* run for each merge still sees that merge's changes as changing: no change
\* to a subscribed path goes unreported because a later merge advanced the
\* epoch before the callback ran.
C36_AsStated == \A e \in qcLog : QcTouched(e.n) \subseteq e.saw

\* C36, the case: two merges arrived before the callback of the first ran,
\* and both wrote the quote of au, which the callback saw changing
C36_Witness ==
    \E e \in qcLog :
        /\ e.n = 1
        /\ e.at = 2
        /\ QcTouched(1) = {"au"}
        /\ QcTouched(2) = {"au"}
        /\ e.saw = {"au"}

----------------------------------------------------------------------------
(* Claims about the orders a merge emits *)

\* the last call of MergeData brought a mapping for the order
InLastMerge(o) ==
    \E i \in 1..Len(lastArr) : IsMap(NodeAt(lastArr[i], OrdersPath \o <<o>>))

\* the orders emitted by the step, by the callback of the merge that was the
\* last call of MergeData
EmittedForLastMerge ==
    {e \in emitted' \ emitted : e.n = serverMerges /\ lastInc}

\* C37: on an epoch-increasing merge, TradeSession emits an Order only for
\* orders whose own subtree was modified by that merge; a merge that changes
\* only other parts of the user's trade subtree (for example the account)
\* emits no orders.
C37_AsStated == [][\A e \in EmittedForLastMerge : InLastMerge(e.id)]_vars

\* C37, the case: the second frame of the server brought order o1, and the
\* callback of that merge has emitted o1
C37_Witness ==
    /\ serverMerges = 2
    /\ lastInc
    /\ InLastMerge("o1")
    /\ [id |-> "o1", n |-> 2, confirmed |-> TRUE] \in emitted
    /\ pu = {}

----------------------------------------------------------------------------
(* Claims about the reconnect budget *)

\* the reconnects that opened a connection: every dial but the first
SucceededReconnects == IF dials = 0 THEN 0 ELSE dials - 1

\* the attempts that failed: with the one url of the quote channel every
\* attempt of the timer is counted in reconnectTimes
FailedReconnects == reconnectTimes - SucceededReconnects

\* C38: onDeath is declared only when the reconnect budget is exhausted by
\* failed attempts: reconnects that succeeded earlier do not count against a
\* later outage, so a connection that has recovered can again be
\* re-established ReconnectMaxTimes times.
C38_AsStated == dead => FailedReconnects >= ReconnectMaxTimes

\* C38, the case: a reconnect has succeeded, the recovered connection was
\* lost later, and the next reconnect is scheduled
C38_Witness ==
    /\ ~dead
    /\ dials = 2
    /\ connBy = "timer"
    /\ ~connAlive
    /\ status = "Closed"
    /\ reconnectTask = "pending"
    /\ reconnectTimes = 1
----------------------------------------------------------------------------
(* C39: callbacks after Close *)

\* the user callbacks processUpdate starts at its end
Invoked(g) == InfoOf(g, FALSE).invoked

\* a goroutine of processUpdate started by a merge after Close returned
AfterClose(g) == srClosedAt >= 0 /\ g.n > srClosedAt

\* C39: after SeriesSubscription.Close has returned, no user callback of the
\* subscription is invoked for a merge that happens afterwards: a processUpdate
\* started by such a merge ends without invoking any
C39_AsStated ==
    [][\A g \in sp : (AfterClose(g) /\ g.pc = "cwrite" /\ g \notin sp')
                        => Invoked(g) = {}]_vars

\* Close returned before any frame was merged, and a processUpdate has since
\* run to its end with the user's callbacks registered
C39_Witness ==
    /\ srClosedAt = 0
    /\ handlers # {}
    /\ \E i \in 1..Len(updates) : "onUpdate" \in updates[i].invoked

====
